---- MODULE Spec2Model ----
(***************************************************************************)
(* Seating-chart generator: the desk layout editor (LayoutEditor.tsx), the  *)
(* layout <-> matrix conversion, and the generate/modify flow of App.       *)
(*                                                                          *)
(* Text is modelled as a sequence of one-character strings, so that join,   *)
(* split, trim and padEnd are computed character by character.              *)
(* Sizes that the code halves (width / 2, height / 2, DESK_HEIGHT_UNITS /   *)
(* 2) are compared after multiplying both sides by two, and a cluster mean  *)
(* is kept as the pair sum/count, so every comparison is exact.             *)
(***************************************************************************)
EXTENDS Integers, Sequences, FiniteSets, TLC

\* ------------------------------------------------------------------------
\* Program constants
\* ------------------------------------------------------------------------
DESK_WIDTH_UNITS == 8
DESK_HEIGHT_UNITS == 4
\* parseLayoutMatrixToObjects: colIndex * (DESK_WIDTH_UNITS + 2), rowIndex * (DESK_HEIGHT_UNITS + 2)
ParseSpacing == 2
\* cell.padEnd(5) of the numbered matrix
NumberedCellWidth == 5

T1 == <<"1">>
T11 == <<"1", "1">>
T111 == <<"1", "1", "1">>
T101 == <<"1", "0", "1">>
T00 == <<"0", "0">>
EmptyCell == <<"-", "-">>

PALETTE_DESKS ==
    << [type |-> T1,   width |-> DESK_WIDTH_UNITS \div 2, height |-> DESK_HEIGHT_UNITS],
       [type |-> T11,  width |-> DESK_WIDTH_UNITS, height |-> DESK_HEIGHT_UNITS],
       [type |-> T111, width |-> DESK_WIDTH_UNITS + (DESK_WIDTH_UNITS \div 2), height |-> DESK_HEIGHT_UNITS],
       [type |-> T101, width |-> DESK_WIDTH_UNITS + (DESK_WIDTH_UNITS \div 2), height |-> DESK_HEIGHT_UNITS] >>

\* const defaultLayout = '11,11,11\n11,11,11\n11,11,11\n11,11,11\n11,11,11'
DefaultRowText == T11 \o <<",">> \o T11 \o <<",">> \o T11
defaultLayout ==
    DefaultRowText \o <<"\n">> \o DefaultRowText \o <<"\n">> \o DefaultRowText
        \o <<"\n">> \o DefaultRowText \o <<"\n">> \o DefaultRowText

\* ------------------------------------------------------------------------
\* Text helpers (String.prototype.split / trim / padEnd, Array.prototype.join)
\* ------------------------------------------------------------------------
Abs(n) == IF n < 0 THEN -n ELSE n

Max(a, b) == IF a > b THEN a ELSE b

DigitChar(d) == <<"0", "1", "2", "3", "4", "5", "6", "7", "8", "9">>[d + 1]

RECURSIVE NumberToText(_)
\* String(n) for a natural number n
NumberToText(n) ==
    IF n < 10 THEN <<DigitChar(n)>>
    ELSE NumberToText(n \div 10) \o <<DigitChar(n % 10)>>

DigitValue(c) ==
    CASE c = "0" -> 0 [] c = "1" -> 1 [] c = "2" -> 2 [] c = "3" -> 3
      [] c = "4" -> 4 [] c = "5" -> 5 [] c = "6" -> 6 [] c = "7" -> 7
      [] c = "8" -> 8 [] c = "9" -> 9 [] OTHER -> -1

RECURSIVE TextToNumber(_)
\* Number(text) for a non-empty string of decimal digits
TextToNumber(t) ==
    IF Len(t) = 1 THEN DigitValue(t[1])
    ELSE 10 * TextToNumber(SubSeq(t, 1, Len(t) - 1)) + DigitValue(t[Len(t)])

RECURSIVE Join(_, _)
\* parts.join(sep)
Join(parts, sep) ==
    IF Len(parts) = 0 THEN <<>>
    ELSE IF Len(parts) = 1 THEN parts[1]
    ELSE parts[1] \o sep \o Join(Tail(parts), sep)

\* text.split(ch): the parts between the occurrences of ch; the empty text
\* gives one empty part
Split(text, ch) ==
    LET seps == {i \in DOMAIN text : text[i] = ch}
        n == Cardinality(seps)
        sepAt(k) == IF k = 0 THEN 0
                    ELSE IF k = n + 1 THEN Len(text) + 1
                    ELSE CHOOSE i \in seps : Cardinality({j \in seps : j < i}) = k - 1
    IN  [k \in 1..(n + 1) |->
            IF sepAt(k - 1) + 1 > sepAt(k) - 1 THEN <<>>
            ELSE SubSeq(text, sepAt(k - 1) + 1, sepAt(k) - 1)]

IsSpace(c) == c \in {" ", "\n", "\t", "\r"}

RECURSIVE TrimStart(_)
TrimStart(t) ==
    IF Len(t) > 0 /\ IsSpace(t[1]) THEN TrimStart(Tail(t)) ELSE t

RECURSIVE TrimEnd(_)
TrimEnd(t) ==
    IF Len(t) > 0 /\ IsSpace(t[Len(t)]) THEN TrimEnd(SubSeq(t, 1, Len(t) - 1)) ELSE t

\* text.trim()
Trim(t) == TrimEnd(TrimStart(t))

RECURSIVE PadEnd(_, _)
\* text.padEnd(n)
PadEnd(t, n) == IF Len(t) >= n THEN t ELSE PadEnd(Append(t, " "), n)

\* the key `${rowIndex}-${colIndex}` of positionMap
PosKey(r, c) == NumberToText(r) \o <<"-">> \o NumberToText(c)

\* pos.split('-').map(Number)
KeyToPos(key) ==
    LET parts == Split(key, "-")
    IN  <<TextToNumber(parts[1]), TextToNumber(parts[2])>>

\* ------------------------------------------------------------------------
\* Array helpers
\* ------------------------------------------------------------------------
\* the sort key of a desk: its x or its y
KeyOf(d, field) == IF field = "x" THEN d.x ELSE d.y

RECURSIVE InsertByKey_Descending(_, _, _)
\* the comparator with its operands exchanged: b.field - a.field
InsertByKey_Descending(sorted, e, field) ==
    IF Len(sorted) = 0 THEN <<e>>
    ELSE IF KeyOf(sorted[Len(sorted)], field) >= KeyOf(e, field) THEN Append(sorted, e)
    ELSE Append(InsertByKey_Descending(SubSeq(sorted, 1, Len(sorted) - 1), e, field),
                sorted[Len(sorted)])

RECURSIVE InsertByKey(_, _, _)
\* insert e behind every element whose key is not larger (stable)
InsertByKey(sorted, e, field) ==
    IF Len(sorted) = 0 THEN <<e>>
    ELSE IF KeyOf(sorted[Len(sorted)], field) <= KeyOf(e, field) THEN Append(sorted, e)
    ELSE Append(InsertByKey(SubSeq(sorted, 1, Len(sorted) - 1), e, field), sorted[Len(sorted)])

RECURSIVE SortByKey(_, _)
\* [...seq].sort((a, b) => a.field - b.field): a consistent comparator, and
\* Array.prototype.sort is stable
SortByKey(seq, field) ==
    IF Len(seq) = 0 THEN <<>>
    ELSE InsertByKey(SortByKey(SubSeq(seq, 1, Len(seq) - 1), field), seq[Len(seq)], field)

RECURSIVE Repeat(_, _)
\* Array(n).fill(v)
Repeat(v, n) == IF n <= 0 THEN <<>> ELSE Append(Repeat(v, n - 1), v)

\* seq[i] = v, i 1-based
SetAt(seq, i, v) == SubSeq(seq, 1, i - 1) \o <<v>> \o SubSeq(seq, i + 1, Len(seq))

Range(seq) == {seq[i] : i \in DOMAIN seq}

\* every ordering of the elements of seq
Orderings(seq) ==
    LET n == Len(seq)
    IN  { [i \in 1..n |-> seq[p[i]]] :
            p \in {q \in [1..n -> 1..n] : \A i, j \in 1..n : q[i] = q[j] => i = j} }

RECURSIVE SetToSortedSeq(_)
\* [...new Set(values)].sort((a, b) => a - b)
SetToSortedSeq(S) ==
    IF S = {} THEN <<>>
    ELSE LET m == CHOOSE v \in S : \A w \in S : v <= w
         IN  <<m>> \o SetToSortedSeq(S \ {m})

EmptyMap == [k \in {} |-> <<>>]

\* ------------------------------------------------------------------------
\* convertObjectsToLayoutMatrix (LayoutEditor.tsx)
\* ------------------------------------------------------------------------
\* the comparator of the numbering sort: front to back, then left to right
UiCompare(a, b) ==
    IF 2 * Abs(a.y - b.y) > DESK_HEIGHT_UNITS
    THEN b.y - a.y
    ELSE a.x - b.x

Sign(n) == IF n < 0 THEN -1 ELSE IF n > 0 THEN 1 ELSE 0

RECURSIVE UiInsert(_, _)
UiInsert(sorted, e) ==
    IF Len(sorted) = 0 THEN <<e>>
    ELSE IF UiCompare(sorted[Len(sorted)], e) <= 0 THEN Append(sorted, e)
    ELSE Append(UiInsert(SubSeq(sorted, 1, Len(sorted) - 1), e), sorted[Len(sorted)])

RECURSIVE UiStableSort(_)
UiStableSort(seq) ==
    IF Len(seq) = 0 THEN <<>>
    ELSE UiInsert(UiStableSort(SubSeq(seq, 1, Len(seq) - 1)), seq[Len(seq)])

RECURSIVE UiRanks(_)
\* the rank of each element of a sorted sequence: its predecessor's when the
\* comparator reports them equal, one more otherwise
UiRanks(sorted) ==
    IF Len(sorted) <= 1 THEN [i \in DOMAIN sorted |-> 1]
    ELSE LET n == Len(sorted)
             front == UiRanks(SubSeq(sorted, 1, n - 1))
         IN  Append(front, front[n - 1]
                             + (IF UiCompare(sorted[n - 1], sorted[n]) = 0 THEN 0 ELSE 1))

\* ECMAScript: a comparator is consistent on a set of values when =, < and >
\* as it reports them are symmetric and transitive, which is to say that it
\* compares the values as it would compare ranks given to them
UiCompareConsistent(seq) ==
    LET sorted == UiStableSort(seq)
        rank == UiRanks(sorted)
    IN  \A i, j \in DOMAIN sorted :
            Sign(UiCompare(sorted[i], sorted[j])) = Sign(rank[i] - rank[j])

\* [...objects].sort(UiCompare): with a consistent comparator the result is
\* the stable sorted order; otherwise ECMAScript leaves the order
\* implementation-defined, and any ordering of the elements may come out
UiSortOutcomes(objects) ==
    IF UiCompareConsistent(objects)
    THEN {UiStableSort(objects)}
    ELSE Orderings(objects)

\* deskNumberMap.get(id): index + 1 in the numbering order (0: undefined)
DeskNumber(uiSortedObjects, id) ==
    LET hits == {i \in DOMAIN uiSortedObjects : uiSortedObjects[i].id = id}
    IN  IF hits = {} THEN 0 ELSE CHOOSE i \in hits : \A j \in hits : j <= i

RECURSIVE GroupRows(_, _, _, _)
\* step 1: rows by proximity of the vertical centre to the row's first desk
GroupRows(sortedByY, i, rows, currentRow) ==
    IF i > Len(sortedByY) THEN Append(rows, SortByKey(currentRow, "x"))
    ELSE LET currentDesk == sortedByY[i]
             firstDeskInRow == currentRow[1]
         IN  IF Abs((2 * currentDesk.y + currentDesk.height)
                     - (2 * firstDeskInRow.y + firstDeskInRow.height)) < 2 * DESK_HEIGHT_UNITS
             THEN GroupRows(sortedByY, i + 1, rows, Append(currentRow, currentDesk))
             ELSE GroupRows(sortedByY, i + 1,
                            Append(rows, SortByKey(currentRow, "x")), <<currentDesk>>)

\* twice the horizontal centre d.x + d.width / 2
Center2(d) == 2 * d.x + d.width

RECURSIVE SumSeq(_)
SumSeq(s) == IF Len(s) = 0 THEN 0 ELSE s[1] + SumSeq(Tail(s))

\* the mean of a cluster of doubled centres, as the fraction sum / (2 * n)
ClusterCenter(cluster) == [sum |-> SumSeq(cluster), n |-> Len(cluster)]

RECURSIVE ClusterColumns(_, _, _, _)
\* step 2: sequential clustering of the sorted unique centres
ClusterColumns(sortedUniqueCenters, i, columnCenters, currentCluster) ==
    IF i > Len(sortedUniqueCenters)
    THEN Append(columnCenters, ClusterCenter(currentCluster))
    ELSE IF sortedUniqueCenters[i] - currentCluster[Len(currentCluster)] < DESK_WIDTH_UNITS
    THEN ClusterColumns(sortedUniqueCenters, i + 1, columnCenters,
                        Append(currentCluster, sortedUniqueCenters[i]))
    ELSE ClusterColumns(sortedUniqueCenters, i + 1,
                        Append(columnCenters, ClusterCenter(currentCluster)),
                        <<sortedUniqueCenters[i]>>)

ColumnCenters(objects) ==
    LET sortedUniqueCenters == SetToSortedSeq({Center2(objects[i]) : i \in DOMAIN objects})
    IN  IF Len(sortedUniqueCenters) = 0 THEN <<>>
        ELSE ClusterColumns(sortedUniqueCenters, 2, <<>>, <<sortedUniqueCenters[1]>>)

RECURSIVE BestColFrom(_, _, _, _)
\* the column whose centre is nearest (the first one on a tie); 0-based, -1: none
BestColFrom(deskCenter2, columnCenters, index, best) ==
    IF index > Len(columnCenters) THEN best.idx
    ELSE LET c == columnCenters[index]
             num == Abs(deskCenter2 * c.n - c.sum)
             den == 2 * c.n
         IN  IF best.idx = -1 \/ num * best.den < best.num * den
             THEN BestColFrom(deskCenter2, columnCenters, index + 1,
                              [idx |-> index - 1, num |-> num, den |-> den])
             ELSE BestColFrom(deskCenter2, columnCenters, index + 1, best)

BestColIndex(desk, columnCenters) ==
    BestColFrom(Center2(desk), columnCenters, 1, [idx |-> -1, num |-> 0, den |-> 1])

\* for (let i = 0; i < numCols; i++) if (newRow[i] === '--') ...: 0-based, -1: none
FirstFreeCol(newRow, numCols) ==
    LET free == {i \in 0..(numCols - 1) : newRow[i + 1] = EmptyCell}
    IN  IF free = {} THEN -1 ELSE CHOOSE i \in free : \A j \in free : i <= j

\* the nearest column taken without looking whether it is free
PlaceDesk_Overwrite(st, desk, rowIndex, columnCenters, numCols) ==
    LET bestColIndex == BestColIndex(desk, columnCenters)
    IN  [row |-> SetAt(st.row, bestColIndex + 1, desk.type),
         positionMap |-> (PosKey(rowIndex, bestColIndex) :> desk.id) @@ st.positionMap]

\* the body of row.forEach(desk => ...): st = [row, positionMap]
PlaceDesk(st, desk, rowIndex, columnCenters, numCols) ==
    LET bestColIndex == BestColIndex(desk, columnCenters)
        freeCol == FirstFreeCol(st.row, numCols)
    IN  IF bestColIndex # -1 /\ st.row[bestColIndex + 1] = EmptyCell
        THEN [row |-> SetAt(st.row, bestColIndex + 1, desk.type),
              positionMap |-> (PosKey(rowIndex, bestColIndex) :> desk.id) @@ st.positionMap]
        ELSE IF bestColIndex # -1
        THEN IF freeCol # -1
             THEN [row |-> SetAt(st.row, freeCol + 1, desk.type),
                   positionMap |-> (PosKey(rowIndex, freeCol) :> desk.id) @@ st.positionMap]
             ELSE [row |-> Append(st.row, desk.type),
                   positionMap |-> (PosKey(rowIndex, Len(st.row)) :> desk.id) @@ st.positionMap]
        ELSE st

RECURSIVE PlaceRow(_, _, _, _, _, _)
PlaceRow(st, row, k, rowIndex, columnCenters, numCols) ==
    IF k > Len(row) THEN st
    ELSE PlaceRow(PlaceDesk(st, row[k], rowIndex, columnCenters, numCols),
                  row, k + 1, rowIndex, columnCenters, numCols)

RECURSIVE BuildGrid(_, _, _, _, _)
\* step 3: rows.map((row, rowIndex) => ...): acc = [grid, positionMap]
BuildGrid(acc, rows, r, columnCenters, numCols) ==
    IF r > Len(rows) THEN acc
    ELSE LET st == PlaceRow([row |-> Repeat(EmptyCell, numCols),
                             positionMap |-> acc.positionMap],
                            rows[r], 1, r - 1, columnCenters, numCols)
         IN  BuildGrid([grid |-> Append(acc.grid, st.row), positionMap |-> st.positionMap],
                       rows, r + 1, columnCenters, numCols)

RECURSIVE MaxRowLength(_)
MaxRowLength(grid) ==
    IF Len(grid) = 0 THEN 0 ELSE Max(Len(grid[1]), MaxRowLength(Tail(grid)))

\* while (row.length < maxRowLength) row.push('--')
PadRow(row, n) == row \o Repeat(EmptyCell, n - Len(row))

\* the positionMap key built as column-row
NumberedCell_ColumnRowKey(cell, r, c, positionMap, uiSortedObjects) ==
    IF cell = EmptyCell THEN EmptyCell
    ELSE IF PosKey(c, r) \notin DOMAIN positionMap THEN EmptyCell
    ELSE LET deskNumber == DeskNumber(uiSortedObjects, positionMap[PosKey(c, r)])
         IN  IF deskNumber = 0 THEN EmptyCell ELSE <<"L">> \o NumberToText(deskNumber)

\* part B: the label of a cell of the numbered grid
NumberedCell(cell, r, c, positionMap, uiSortedObjects) ==
    IF cell = EmptyCell THEN EmptyCell
    ELSE IF PosKey(r, c) \notin DOMAIN positionMap THEN EmptyCell
    ELSE LET deskNumber == DeskNumber(uiSortedObjects, positionMap[PosKey(r, c)])
         IN  IF deskNumber = 0 THEN EmptyCell ELSE <<"L">> \o NumberToText(deskNumber)

EmptyConversion ==
    [matrix |-> <<>>, layout |-> <<>>, positionMap |-> EmptyMap, numberedMatrix |-> <<>>]

\* uiSortedObjects is the outcome of the numbering sort (part A)
convertObjectsToLayoutMatrix(objects, uiSortedObjects) ==
    IF Len(objects) = 0 THEN EmptyConversion
    ELSE
    LET sortedByY == SortByKey(objects, "y")
        rows == GroupRows(sortedByY, 2, <<>>, <<sortedByY[1]>>)
        columnCenters == ColumnCenters(objects)
        numCols == IF Len(columnCenters) > 0 THEN Len(columnCenters) ELSE 1
        built == BuildGrid([grid |-> <<>>, positionMap |-> EmptyMap], rows, 1,
                           columnCenters, numCols)
        maxRowLength == MaxRowLength(built.grid)
        finalLayoutGrid == [r \in DOMAIN built.grid |-> PadRow(built.grid[r], maxRowLength)]
        matrix == Join([r \in DOMAIN finalLayoutGrid |-> Join(finalLayoutGrid[r], <<",">>)],
                       <<"\n">>)
        numberedGrid ==
            [r \in DOMAIN finalLayoutGrid |->
                [c \in DOMAIN finalLayoutGrid[r] |->
                    NumberedCell(finalLayoutGrid[r][c], r - 1, c - 1,
                                 built.positionMap, uiSortedObjects)]]
        numberedMatrix ==
            Join([r \in DOMAIN numberedGrid |->
                    Join([c \in DOMAIN numberedGrid[r] |->
                            PadEnd(numberedGrid[r][c], NumberedCellWidth)], <<",">>)],
                 <<"\n">>)
    IN  [matrix |-> matrix, layout |-> finalLayoutGrid,
         positionMap |-> built.positionMap, numberedMatrix |-> numberedMatrix]

\* ------------------------------------------------------------------------
\* parseLayoutMatrixToObjects (LayoutEditor.tsx)
\* ------------------------------------------------------------------------
\* PALETTE_DESKS.find(d => d.type === trimmedDesk) || {width, height}
DeskConfig(type) ==
    LET hits == {i \in DOMAIN PALETTE_DESKS : PALETTE_DESKS[i].type = type}
    IN  IF hits = {}
        THEN [width |-> DESK_WIDTH_UNITS, height |-> DESK_HEIGHT_UNITS]
        ELSE LET p == PALETTE_DESKS[CHOOSE i \in hits : \A j \in hits : i <= j]
             IN  [width |-> p.width, height |-> p.height]

InitialId(n) == <<"desk-initial", n>>

RECURSIVE ParseCells_NoRowSpacing(_, _, _, _)
\* y taken as the bare row index
ParseCells_NoRowSpacing(acc, cells, colIndex, rowIndex) ==
    IF colIndex >= Len(cells) THEN acc
    ELSE LET trimmedDesk == Trim(cells[colIndex + 1])
         IN  IF Len(trimmedDesk) > 0 /\ trimmedDesk # EmptyCell
             THEN ParseCells_NoRowSpacing(
                    Append(acc, [id |-> InitialId(Len(acc)),
                                 type |-> trimmedDesk,
                                 x |-> colIndex * (DESK_WIDTH_UNITS + ParseSpacing),
                                 y |-> rowIndex,
                                 width |-> DeskConfig(trimmedDesk).width,
                                 height |-> DeskConfig(trimmedDesk).height,
                                 rotation |-> 0,
                                 userBlockedSeats |-> <<>>]),
                    cells, colIndex + 1, rowIndex)
             ELSE ParseCells_NoRowSpacing(acc, cells, colIndex + 1, rowIndex)

RECURSIVE ParseCells(_, _, _, _)
\* row.split(',').forEach((deskType, colIndex) => ...): objects so far in acc
ParseCells(acc, cells, colIndex, rowIndex) ==
    IF colIndex >= Len(cells) THEN acc
    ELSE LET trimmedDesk == Trim(cells[colIndex + 1])
         IN  IF Len(trimmedDesk) > 0 /\ trimmedDesk # EmptyCell
             THEN ParseCells(
                    Append(acc, [id |-> InitialId(Len(acc)),
                                 type |-> trimmedDesk,
                                 x |-> colIndex * (DESK_WIDTH_UNITS + ParseSpacing),
                                 y |-> rowIndex * (DESK_HEIGHT_UNITS + ParseSpacing),
                                 width |-> DeskConfig(trimmedDesk).width,
                                 height |-> DeskConfig(trimmedDesk).height,
                                 rotation |-> 0,
                                 userBlockedSeats |-> <<>>]),
                    cells, colIndex + 1, rowIndex)
             ELSE ParseCells(acc, cells, colIndex + 1, rowIndex)

RECURSIVE ParseRows(_, _, _)
ParseRows(acc, rows, rowIndex) ==
    IF rowIndex >= Len(rows) THEN acc
    ELSE ParseRows(ParseCells(acc, Split(rows[rowIndex + 1], ","), 0, rowIndex),
                   rows, rowIndex + 1)

parseLayoutMatrixToObjects(matrix) == ParseRows(<<>>, Split(Trim(matrix), "\n"), 0)

\* ------------------------------------------------------------------------
\* checkCollision (LayoutEditor.tsx)
\* ------------------------------------------------------------------------
\* the half-open overlap test of two rectangles
RectsOverlap(a, b) ==
    /\ a.x < b.x + b.width
    /\ a.x + a.width > b.x
    /\ a.y < b.y + b.height
    /\ a.y + a.height > b.y

\* tests the top-left corner of the new desk instead of its rectangle
checkCollision_CornerOnly(newDesk, existingDesks) ==
    \E i \in DOMAIN existingDesks :
        /\ existingDesks[i].id # newDesk.id
        /\ newDesk.x >= existingDesks[i].x
        /\ newDesk.x < existingDesks[i].x + existingDesks[i].width
        /\ newDesk.y >= existingDesks[i].y
        /\ newDesk.y < existingDesks[i].y + existingDesks[i].height

checkCollision(newDesk, existingDesks) ==
    \E i \in DOMAIN existingDesks :
        /\ existingDesks[i].id # newDesk.id
        /\ RectsOverlap(newDesk, existingDesks[i])

\* ------------------------------------------------------------------------
\* State
\* ------------------------------------------------------------------------
VARIABLES
    objects,          \* the argument of convertObjectsToLayoutMatrix
    converted,        \* its result
    parsedObjects,    \* parseLayoutMatrixToObjects(converted.matrix)
    reconverted,      \* convertObjectsToLayoutMatrix(parsedObjects)
    convPc            \* "input", "converted", "parsed", "reconverted"

convVars == <<objects, converted, parsedObjects, reconverted, convPc>>

\* LayoutEditor (LayoutEditor.tsx:37-39)
VARIABLES
    editorLayoutObjects,  \* the editor's layoutObjects state, initialised from initialLayout
    dragData,             \* dragData.current: Null or Some(record)
    nextDeskId,           \* the value Date.now() gives the next dropped palette desk
    lastEvent,            \* the handler that ran last, with its arguments
    edits                 \* the number of editor handlers run so far

editorVars == <<editorLayoutObjects, dragData, nextDeskId, lastEvent, edits>>

\* App (GeneratedChart.tsx:182-190), Null for null and Some(v) otherwise
VARIABLES
    layoutObjects,
    students,             \* the text of the roster field
    seatingChart,
    finalArrangement,
    isLoading,
    error,
    isEditingLayout,
    inFlight,             \* the calls of generateSeatingArrangement not yet returned,
                          \* each with the variables its continuation closes over
    requestsSent,         \* the number of calls of generateSeatingArrangement so far
    lastAppEvent,         \* the App handler that ran last
    lastChange            \* the last of the user's operations on the arrangement:
                          \* "generate" (the generate button), "discard", "load"
                          \* (a saved classroom), or "none"

appVars == <<layoutObjects, students, seatingChart, finalArrangement, isLoading, error,
             isEditingLayout, inFlight, requestsSent, lastAppEvent, lastChange>>

\* the saved classrooms of App (GeneratedChart.tsx:193-194, 314-401)
VARIABLES
    savedLayouts,              \* the in-memory list of saved classrooms
    localStorage,              \* the item LAYOUTS_STORAGE_KEY: Null, or Some(list) for
                               \* the text JSON.stringify wrote
    isManageLayoutsModalOpen,
    lastStorageEvent,          \* the storage handler that ran last, with its arguments
    storageOps                 \* the number of storage handlers run so far

storageVars == <<savedLayouts, localStorage, isManageLayoutsModalOpen, lastStorageEvent,
                 storageOps>>

\* dictation (GeneratedChart.tsx:184, 201-282, useSpeechRecognition.ts:45-46)
VARIABLES
    conditions,                \* the text of the conditions field
    dictationTarget,           \* Null, or Some("students") or Some("conditions")
    baseTextOnListenStart,     \* baseTextOnListenStart.current
    isListening,
    sessions,                  \* the SpeechRecognition objects created so far:
                               \* "starting" (start() called), "active", "stopping"
                               \* (stop() called), "failed" (after onerror) or "ended"
    recognitionRef,            \* recognitionRef.current: 0 for null, or the index of
                               \* an object in sessions
    lastDictationEvent,        \* the dictation handler that ran last, with its arguments
    dictationEvents            \* the number of recognition result events so far

dictationVars == <<conditions, dictationTarget, baseTextOnListenStart, isListening,
                   sessions, recognitionRef, lastDictationEvent, dictationEvents>>

vars == <<convVars, editorVars, appVars, storageVars, dictationVars>>

\* null, and a value that is not null
Null == <<>>

Some(v) == <<v>>

\* the state of the parts of the program a specification does not run
ConvIdle ==
    /\ objects = <<>>
    /\ converted = EmptyConversion
    /\ parsedObjects = <<>>
    /\ reconverted = EmptyConversion
    /\ convPc = "idle"

EditorIdle ==
    /\ editorLayoutObjects = <<>>
    /\ dragData = Null
    /\ nextDeskId = 0
    /\ lastEvent = [handler |-> "none"]
    /\ edits = 0

AppIdle ==
    /\ layoutObjects = <<>>
    /\ students = <<>>
    /\ seatingChart = Null
    /\ finalArrangement = Null
    /\ isLoading = FALSE
    /\ error = Null
    /\ isEditingLayout = FALSE
    /\ inFlight = <<>>
    /\ requestsSent = 0
    /\ lastAppEvent = [handler |-> "none"]
    /\ lastChange = "none"

StorageIdle ==
    /\ savedLayouts = <<>>
    /\ localStorage = Null
    /\ isManageLayoutsModalOpen = FALSE
    /\ lastStorageEvent = [handler |-> "none"]
    /\ storageOps = 0

DictationIdle ==
    /\ conditions = <<>>
    /\ dictationTarget = Null
    /\ baseTextOnListenStart = <<>>
    /\ isListening = FALSE
    /\ sessions = <<>>
    /\ recognitionRef = 0
    /\ lastDictationEvent = [handler |-> "none"]
    /\ dictationEvents = 0

\* ------------------------------------------------------------------------
\* Conversion of hand-placed layouts
\* ------------------------------------------------------------------------
\* the largest number of desks of an input layout
MaxDesks == 4

\* a desk of the palette type at (x, y); a rotated desk has width and height swapped
MakeDesk(id, type, x, y, rotation) ==
    [id |-> id, type |-> type, x |-> x, y |-> y,
     width |-> IF rotation = 0 THEN DeskConfig(type).width ELSE DeskConfig(type).height,
     height |-> IF rotation = 0 THEN DeskConfig(type).height ELSE DeskConfig(type).width,
     rotation |-> rotation, userBlockedSeats |-> <<>>]

NewId(n) == <<"desk", n>>

\* the desks an input layout is drawn from
DeskCatalog ==
    << MakeDesk(NewId(1), T11, 0, 0, 0),
       MakeDesk(NewId(2), T11, 10, 0, 0),
       MakeDesk(NewId(3), T1, 10, 0, 0),
       MakeDesk(NewId(4), T1, 14, 0, 0),
       MakeDesk(NewId(5), T11, 10, 6, 0),
       MakeDesk(NewId(6), T11, 0, 6, 0),
       MakeDesk(NewId(7), T11, 10, 3, 0),
       MakeDesk(NewId(8), T101, 20, 0, 90),
       MakeDesk(NewId(9), T11, 10, 2, 0),
       MakeDesk(NewId(10), T11, 20, 4, 0),
       MakeDesk(NewId(11), T111, 10, 6, 0) >>

Reverse(seq) == [i \in DOMAIN seq |-> seq[Len(seq) + 1 - i]]

\* the catalogue desks of a set of indices, in catalogue order
CatalogSeq(S) == LET idx == SetToSortedSeq(S) IN [i \in DOMAIN idx |-> DeskCatalog[idx[i]]]

InputLayouts ==
    LET picks == {S \in SUBSET (DOMAIN DeskCatalog) : Cardinality(S) <= MaxDesks}
    IN  {CatalogSeq(S) : S \in picks} \cup {Reverse(CatalogSeq(S)) : S \in picks}

NoOverlap(objs) ==
    \A i, j \in DOMAIN objs : i # j => ~RectsOverlap(objs[i], objs[j])

ConvInit ==
    /\ objects \in InputLayouts
    /\ converted = EmptyConversion
    /\ parsedObjects = <<>>
    /\ reconverted = EmptyConversion
    /\ convPc = "input"
    /\ EditorIdle
    /\ AppIdle
    /\ StorageIdle
    /\ DictationIdle

ConvertObjects ==
    /\ convPc = "input"
    /\ \E uiSortedObjects \in UiSortOutcomes(objects) :
          converted' = convertObjectsToLayoutMatrix(objects, uiSortedObjects)
    /\ convPc' = "converted"
    /\ UNCHANGED <<objects, parsedObjects, reconverted, editorVars, appVars, storageVars,
                   dictationVars>>

ParseMatrix ==
    /\ convPc = "converted"
    /\ parsedObjects' = parseLayoutMatrixToObjects(converted.matrix)
    /\ convPc' = "parsed"
    /\ UNCHANGED <<objects, converted, reconverted, editorVars, appVars, storageVars,
                   dictationVars>>

ReconvertParsed ==
    /\ convPc = "parsed"
    /\ \E uiSortedObjects \in UiSortOutcomes(parsedObjects) :
          reconverted' = convertObjectsToLayoutMatrix(parsedObjects, uiSortedObjects)
    /\ convPc' = "reconverted"
    /\ UNCHANGED <<objects, converted, parsedObjects, editorVars, appVars, storageVars,
                   dictationVars>>

ConvNext == ConvertObjects \/ ParseMatrix \/ ReconvertParsed

SpecConv == ConvInit /\ [][ConvNext]_vars

\* ------------------------------------------------------------------------
\* The layout editor (LayoutEditor.tsx, LayoutPreview.tsx)
\* ------------------------------------------------------------------------
\* the largest number of editor handlers run in one editing session
MaxEdits == 3

\* the number of desks of the initial layout the user clicks on or drags
MaxTargets == 1

\* the grid positions Math.round(x / GRID_SIZE), Math.round(y / GRID_SIZE)
\* of a drop: clientX, clientY and the drag offset are free, so any point
DropXs == {2, 4, 30}

DropYs == {0, 2}

\* type.includes('1')
HasOnes(type) == \E i \in DOMAIN type : type[i] = "1"

\* /^[01]+$/.test(type)
IsSeatCode(type) ==
    /\ Len(type) > 0
    /\ \A i \in DOMAIN type : type[i] \in {"0", "1"}

\* isPermanentlyBlocked of renderDesk, seatIndex 0-based
IsPermanentlyBlocked(type, seatIndex) == HasOnes(type) /\ type[seatIndex + 1] = "0"

\* a click on any seat of the desk reaches the handler
IsClickable_AnySeat(type, seatIndex) ==
    /\ IsSeatCode(type)
    /\ seatIndex \in 0..(Len(type) - 1)

\* the seats renderDesk draws with onClick calling onSeatClick(index)
IsClickable(type, seatIndex) ==
    /\ IsSeatCode(type)
    /\ seatIndex \in 0..(Len(type) - 1)
    /\ ~IsPermanentlyBlocked(type, seatIndex)

\* currentBlocked.includes(seatIndex)
Includes(seq, v) == \E i \in DOMAIN seq : seq[i] = v

\* the index of the first desk with the id, 0 if none (find / findIndex)
RECURSIVE FindFrom(_, _, _)
FindFrom(seq, id, i) ==
    IF i > Len(seq) THEN 0
    ELSE IF seq[i].id = id THEN i
    ELSE FindFrom(seq, id, i + 1)

FindIndex(seq, id) == FindFrom(seq, id, 1)

\* the desks the user points at: the first MaxTargets desks of the initial
\* layout and every desk dropped from the palette
IsTarget(desk) ==
    \/ \E n \in 0..(MaxTargets - 1) : desk.id = InitialId(n)
    \/ desk.id[1] = "desk"

Targets(layout) == {layout[i].id : i \in {j \in DOMAIN layout : IsTarget(layout[j])}}

\* the argument of handleDragStart for a palette desk and for a placed desk
PaletteDrag(p) ==
    [type |-> p.type, width |-> p.width, height |-> p.height, isNew |-> TRUE, id |-> Null]

DeskDrag(desk) ==
    [type |-> desk.type, width |-> desk.width, height |-> desk.height, isNew |-> FALSE,
     id |-> desk.id]

EditorInit ==
    /\ editorLayoutObjects = parseLayoutMatrixToObjects(defaultLayout)
    /\ dragData = Null
    /\ nextDeskId = 1
    /\ lastEvent = [handler |-> "none"]
    /\ edits = 0
    /\ ConvIdle
    /\ AppIdle
    /\ StorageIdle
    /\ DictationIdle

handleDragStart(desk) ==
    /\ dragData' = Some(desk)
    /\ lastEvent' = [handler |-> "handleDragStart"]
    /\ UNCHANGED <<editorLayoutObjects, nextDeskId, edits, convVars, appVars, storageVars,
                   dictationVars>>

\* Date.now() is read once per drop; two drops never share a millisecond
handleDrop(gridX, gridY) ==
    /\ dragData # Null
    /\ edits < MaxEdits
    /\ LET drag == dragData[1]
           newDesk == [id |-> IF drag.id # Null THEN drag.id ELSE NewId(nextDeskId),
                       type |-> drag.type,
                       x |-> gridX,
                       y |-> gridY,
                       width |-> drag.width,
                       height |-> drag.height,
                       rotation |-> 0,
                       userBlockedSeats |-> <<>>]
           otherDesks == SelectSeq(editorLayoutObjects, LAMBDA d : d.id # newDesk.id)
       IN  IF checkCollision(newDesk, otherDesks)
           THEN UNCHANGED <<editorLayoutObjects, dragData, nextDeskId>>
           ELSE /\ IF drag.isNew
                   THEN /\ editorLayoutObjects' = Append(editorLayoutObjects, newDesk)
                        /\ nextDeskId' = nextDeskId + 1
                   ELSE LET k == FindIndex(editorLayoutObjects, newDesk.id)
                            movedDesk ==
                                IF k = 0 THEN newDesk
                                ELSE [id |-> newDesk.id,
                                      type |-> newDesk.type,
                                      x |-> newDesk.x,
                                      y |-> newDesk.y,
                                      width |-> editorLayoutObjects[k].width,
                                      height |-> editorLayoutObjects[k].height,
                                      rotation |-> editorLayoutObjects[k].rotation,
                                      userBlockedSeats |->
                                          editorLayoutObjects[k].userBlockedSeats]
                        IN  /\ editorLayoutObjects' =
                                 [i \in DOMAIN editorLayoutObjects |->
                                    IF editorLayoutObjects[i].id = newDesk.id
                                    THEN movedDesk
                                    ELSE editorLayoutObjects[i]]
                            /\ UNCHANGED nextDeskId
                /\ dragData' = Null
    /\ lastEvent' = [handler |-> "handleDrop", gridX |-> gridX, gridY |-> gridY]
    /\ edits' = edits + 1
    /\ UNCHANGED <<convVars, appVars, storageVars,
                   dictationVars>>

removeDesk(id) ==
    /\ edits < MaxEdits
    /\ editorLayoutObjects' = SelectSeq(editorLayoutObjects, LAMBDA d : d.id # id)
    /\ lastEvent' = [handler |-> "removeDesk"]
    /\ edits' = edits + 1
    /\ UNCHANGED <<dragData, nextDeskId, convVars, appVars, storageVars,
                   dictationVars>>

\* { ...desk, width: desk.height, height: desk.width, rotation: ... }
RotatedDesk(desk) ==
    [id |-> desk.id, type |-> desk.type, x |-> desk.x, y |-> desk.y,
     width |-> desk.height,
     height |-> desk.width,
     rotation |-> IF desk.rotation = 0 THEN 90 ELSE 0,
     userBlockedSeats |-> desk.userBlockedSeats]

handleRotateDesk(id) ==
    /\ edits < MaxEdits
    /\ editorLayoutObjects' =
          [i \in DOMAIN editorLayoutObjects |->
             IF editorLayoutObjects[i].id = id
             THEN RotatedDesk(editorLayoutObjects[i])
             ELSE editorLayoutObjects[i]]
    /\ lastEvent' = [handler |-> "handleRotateDesk"]
    /\ edits' = edits + 1
    /\ UNCHANGED <<dragData, nextDeskId, convVars, appVars, storageVars,
                   dictationVars>>

\* the toggle that adds the seat index without looking for it in the list
ToggledDesk_AppendOnly(d, seatIndex) ==
    [id |-> d.id, type |-> d.type, x |-> d.x, y |-> d.y,
     width |-> d.width, height |-> d.height, rotation |-> d.rotation,
     userBlockedSeats |-> Append(d.userBlockedSeats, seatIndex)]

\* { ...d, userBlockedSeats: newBlocked }
ToggledDesk(d, seatIndex) ==
    LET currentBlocked == d.userBlockedSeats
        isBlocked == Includes(currentBlocked, seatIndex)
        newBlocked == IF isBlocked
                      THEN SelectSeq(currentBlocked, LAMBDA i : i # seatIndex)
                      ELSE Append(currentBlocked, seatIndex)
    IN  [id |-> d.id, type |-> d.type, x |-> d.x, y |-> d.y,
         width |-> d.width, height |-> d.height, rotation |-> d.rotation,
         userBlockedSeats |-> newBlocked]

\* a click on a seat the editor canvas draws as clickable
handleSeatClick(deskId, seatIndex) ==
    /\ edits < MaxEdits
    /\ \E i \in DOMAIN editorLayoutObjects :
          /\ editorLayoutObjects[i].id = deskId
          /\ IsClickable(editorLayoutObjects[i].type, seatIndex)
    /\ editorLayoutObjects' =
          [i \in DOMAIN editorLayoutObjects |->
             IF editorLayoutObjects[i].id = deskId
             THEN ToggledDesk(editorLayoutObjects[i], seatIndex)
             ELSE editorLayoutObjects[i]]
    /\ lastEvent' = [handler |-> "handleSeatClick"]
    /\ edits' = edits + 1
    /\ UNCHANGED <<dragData, nextDeskId, convVars, appVars, storageVars,
                   dictationVars>>

EditorNext ==
    \/ \E i \in DOMAIN PALETTE_DESKS : handleDragStart(PaletteDrag(PALETTE_DESKS[i]))
    \/ \E i \in DOMAIN editorLayoutObjects :
          /\ IsTarget(editorLayoutObjects[i])
          /\ handleDragStart(DeskDrag(editorLayoutObjects[i]))
    \/ \E gridX \in DropXs, gridY \in DropYs : handleDrop(gridX, gridY)
    \/ \E id \in Targets(editorLayoutObjects) : removeDesk(id)
    \/ \E id \in Targets(editorLayoutObjects) : handleRotateDesk(id)
    \/ \E i \in DOMAIN editorLayoutObjects :
          /\ IsTarget(editorLayoutObjects[i])
          /\ \E seatIndex \in 0..(Len(editorLayoutObjects[i].type) - 1) :
                handleSeatClick(editorLayoutObjects[i].id, seatIndex)

SpecEditor == EditorInit /\ [][EditorNext]_vars

\* ------------------------------------------------------------------------
\* handleGenerateClick: the seat count (GeneratedChart.tsx:495-507)
\* ------------------------------------------------------------------------
\* (text.match(/c/g) || []).length
CountChar(text, c) == Cardinality({i \in DOMAIN text : text[i] = c})

potentialSeats(type) ==
    IF HasOnes(type) THEN CountChar(type, "1") ELSE CountChar(type, "0")

RECURSIVE availableSeats(_)
\* layoutObjects.forEach(desk => availableSeats += potentialSeats - numUserBlocked)
availableSeats(desks) ==
    IF Len(desks) = 0 THEN 0
    ELSE LET desk == desks[Len(desks)]
             rest == availableSeats(SubSeq(desks, 1, Len(desks) - 1))
         IN  IF desk.type # EmptyCell
             THEN rest + (potentialSeats(desk.type) - Len(desk.userBlockedSeats))
             ELSE rest

\* ------------------------------------------------------------------------
\* App: generating and modifying an arrangement (GeneratedChart.tsx)
\* ------------------------------------------------------------------------
\* the largest number of calls of generateSeatingArrangement in one run
MaxRequests == 2

\* the number of desks the user keeps when emptying the layout in the editor
MaxKept == 1

\* the texts typed into the roster field
StudentTexts ==
    { <<" ", "\n", " ">>,
      <<"a", "\n", "b">>,
      <<"a", "\n", "\n", "b", "\n", "c">> }

\* the messages of setError
EmptyLayoutError == Some("Rozlozeni lavic je prazdne")

EmptyRosterError == Some("Seznam zaku je prazdny")

InsufficientSeatsError == Some("Nedostatek mist")

AiReportedError == Some("parsed.error")

CommunicationError == Some("Pri komunikaci s AI sluzbou nastala chyba")

\* students.trim().split('\n').filter(s => s.trim() !== '')
StudentListOfText(text) ==
    SelectSeq(Split(Trim(text), "\n"), LAMBDA s : Trim(s) # <<>>)

RECURSIVE FlatMapStudents(_)
\* arrangement.flatMap(desk => desk.students || [])
FlatMapStudents(arrangement) ==
    IF Len(arrangement) = 0 THEN <<>>
    ELSE arrangement[1].students \o FlatMapStudents(Tail(arrangement))

RECURSIVE Unique(_)
\* [...new Set(names)]: the first occurrence of each, in order
Unique(names) ==
    IF Len(names) = 0 THEN <<>>
    ELSE LET front == Unique(SubSeq(names, 1, Len(names) - 1))
         IN  IF Includes(front, names[Len(names)]) THEN front
             ELSE Append(front, names[Len(names)])

\* the roster of a modification: the names seated in finalArrangement; a null
\* seat is the empty text, which the filter drops as it drops null
StudentListOfArrangement(arrangement) ==
    Unique(SelectSeq(FlatMapStudents(arrangement), LAMBDA s : Len(s) > 0 /\ Trim(s) # <<>>))

\* the checks before the call, without the comparison of roster and seats
validationError_NoSeatCheck(conv, isModification, studentList, desks) ==
    IF Len(conv.matrix) = 0 \/ Len(conv.layout) = 0 THEN EmptyLayoutError
    ELSE IF isModification THEN Null
    ELSE IF Len(studentList) = 0 THEN EmptyRosterError
    ELSE Null

\* the checks of handleGenerateClick before the call: the message of the
\* abort, Null when the call is made
validationError(conv, isModification, studentList, desks) ==
    IF Len(conv.matrix) = 0 \/ Len(conv.layout) = 0 THEN EmptyLayoutError
    ELSE IF isModification THEN Null
    ELSE IF Len(studentList) = 0 THEN EmptyRosterError
    ELSE IF Len(studentList) > availableSeats(desks) THEN InsufficientSeatsError
    ELSE Null

\* the button is clickable without regard to isLoading
GenerateButtonEnabled_Always == TRUE

\* <button onClick={handleGenerateClick} disabled={isLoading}>
GenerateButtonEnabled == ~isLoading

\* { ...obj, students }
WithStudents(obj, seats) ==
    [id |-> obj.id, type |-> obj.type, x |-> obj.x, y |-> obj.y,
     width |-> obj.width, height |-> obj.height, rotation |-> obj.rotation,
     userBlockedSeats |-> obj.userBlockedSeats, students |-> seats]

\* a seat entry of the answer that is a JSON number; a text is a sequence of
\* single characters, so no name equals it
NumberSeat == <<"#7">>

\* typeof s === 'string' ? s : null
StringOrNull(s) == IF s = NumberSeat THEN <<>> ELSE s

\* a row of result.seating is Null when it is not an array and Some(cells)
\* when it is; the cells of the rows that are arrays whose value is truthy and
\* whose positionMap entry is the id, 1-based <<row, column>>
SeatingCellsOf(id, positionMap, seating) ==
    { rc \in UNION { {<<r, c>> : c \in DOMAIN seating[r][1]} :
                       r \in {q \in DOMAIN seating : seating[q] # Null} } :
        /\ seating[rc[1]][1][rc[2]] # Null
        /\ PosKey(rc[1] - 1, rc[2] - 1) \in DOMAIN positionMap
        /\ positionMap[PosKey(rc[1] - 1, rc[2] - 1)] = id }

\* the projection with the seats that are not names dropped, the names
\* moved up
populatedLayoutObjects_Compacted(desks, positionMap, seating) ==
    [i \in DOMAIN desks |->
        LET cells == IF FindIndex(desks, desks[i].id) = i
                     THEN SeatingCellsOf(desks[i].id, positionMap, seating)
                     ELSE {}
        IN  IF cells = {} THEN WithStudents(desks[i], <<>>)
            ELSE LET last == CHOOSE rc \in cells : \A other \in cells :
                                 \/ other[1] < rc[1]
                                 \/ (other[1] = rc[1] /\ other[2] <= rc[2])
                     deskStudents == seating[last[1]][1][last[2]]
                 IN  WithStudents(desks[i],
                         SelectSeq(deskStudents, LAMBDA t : StringOrNull(t) # <<>>))]

\* result.seating.forEach(row => row.forEach(deskStudents => ...)): the desk
\* found by id gets the seats of the last such cell; a null cell and a null
\* seat are the empty sequence and the empty text
populatedLayoutObjects(desks, positionMap, seating) ==
    [i \in DOMAIN desks |->
        LET cells == IF FindIndex(desks, desks[i].id) = i
                     THEN SeatingCellsOf(desks[i].id, positionMap, seating)
                     ELSE {}
        IN  IF cells = {} THEN WithStudents(desks[i], <<>>)
            ELSE LET last == CHOOSE rc \in cells : \A other \in cells :
                                 \/ other[1] < rc[1]
                                 \/ (other[1] = rc[1] /\ other[2] <= rc[2])
                     deskStudents == seating[last[1]][1][last[2]]
                 IN  WithStudents(desks[i],
                         [k \in DOMAIN deskStudents |-> StringOrNull(deskStudents[k])])]

\* row.forEach of a row that is not an array throws a TypeError
RowForEachThrows(seating) == \E r \in DOMAIN seating : seating[r] = Null

Min(a, b) == IF a < b THEN a ELSE b

RECURSIVE FillRow(_, _, _)
\* an answer that seats the names desk by desk along a row of the grid
FillRow(cells, names, acc) ==
    IF Len(cells) = 0 THEN [row |-> acc, rest |-> names]
    ELSE IF cells[1] = EmptyCell THEN FillRow(Tail(cells), names, Append(acc, Null))
    ELSE LET k == Min(Len(cells[1]), Len(names))
         IN  FillRow(Tail(cells), SubSeq(names, k + 1, Len(names)),
                     Append(acc, SubSeq(names, 1, k) \o Repeat(<<>>, Len(cells[1]) - k)))

RECURSIVE SeatInOrder(_, _, _)
SeatInOrder(grid, names, acc) ==
    IF Len(grid) = 0 THEN acc
    ELSE LET filled == FillRow(grid[1], names, <<>>)
         IN  SeatInOrder(Tail(grid), filled.rest, Append(acc, Some(filled.row)))

\* an answer that puts every name at the desk of the first cell, however
\* many seats it has
CrowdedSeating(grid, names) ==
    [r \in DOMAIN grid |->
        Some([c \in DOMAIN grid[r] |-> IF r = 1 /\ c = 1 THEN names ELSE Null])]

\* an answer whose first cell holds a null, a number and the first name, and
\* whose other cells are null
MixedSeating(grid, names) ==
    [r \in DOMAIN grid |->
        Some([c \in DOMAIN grid[r] |->
                IF r = 1 /\ c = 1
                THEN <<Null, NumberSeat>> \o (IF Len(names) = 0 THEN <<>> ELSE <<names[1]>>)
                ELSE Null])]

\* an answer whose last row is null instead of an array
NullRowSeating(grid, names) ==
    LET seated == SeatInOrder(grid, names, <<>>)
    IN  [r \in DOMAIN seated |-> IF r = Len(seated) THEN Null ELSE seated[r]]

\* the value of parsed.seating: missing, not an array, or an array of rows
MissingSeating == [type |-> "undefined", rows |-> <<>>]

ObjectSeating == [type |-> "object", rows |-> <<>>]

ArraySeating(rows) == [type |-> "array", rows |-> rows]

\* how the call of ai.models.generateContent ends: it rejects, or it resolves
\* to a text that JSON.parse rejects (json Null) or parses (json Some(parsed));
\* the answer is whatever the service sends, the response schema is a request
AiResponses(call) ==
    { [kind |-> "rejected"],
      [kind |-> "text", json |-> Null],
      [kind |-> "text",
       json |-> Some([error |-> AiReportedError, seating |-> ArraySeating(<<>>)])],
      [kind |-> "text", json |-> Some([error |-> Some(""), seating |-> MissingSeating])],
      [kind |-> "text", json |-> Some([error |-> Null, seating |-> ObjectSeating])],
      [kind |-> "text", json |-> Some([error |-> Null, seating |-> ArraySeating(<<>>)])],
      [kind |-> "text",
       json |-> Some([error |-> Null,
                      seating |-> ArraySeating(SeatInOrder(call.layout, call.students, <<>>))])],
      [kind |-> "text",
       json |-> Some([error |-> Null,
                      seating |-> ArraySeating(CrowdedSeating(call.layout, call.students))])],
      [kind |-> "text",
       json |-> Some([error |-> Null,
                      seating |-> ArraySeating(MixedSeating(call.layout, call.students))])],
      [kind |-> "text",
       json |-> Some([error |-> Null,
                      seating |-> ArraySeating(NullRowSeating(call.layout, call.students))])] }

\* if (parsed.error): null and the empty string are falsy
Truthy(v) == v # Null /\ v # Some("")

\* the result with the seating kept next to the error
generateSeatingArrangement_KeepSeating(response) ==
    IF response.kind = "rejected" \/ response.json = Null
    THEN [seating |-> Null, error |-> CommunicationError]
    ELSE LET parsed == response.json[1]
         IN  IF parsed.seating.type # "array"
             THEN [seating |-> Null, error |-> CommunicationError]
             ELSE [seating |-> Some(parsed.seating.rows),
                   error |-> IF Truthy(parsed.error) THEN parsed.error ELSE Null]

\* generateSeatingArrangement from the await of generateContent on: the throw
\* of the format check is inside the try block, so the catch block answers it
generateSeatingArrangement(response) ==
    IF response.kind = "rejected" \/ response.json = Null
    THEN [seating |-> Null, error |-> CommunicationError]
    ELSE LET parsed == response.json[1]
         IN  IF Truthy(parsed.error) THEN [seating |-> Null, error |-> parsed.error]
             ELSE IF parsed.seating.type # "array"
             THEN [seating |-> Null, error |-> CommunicationError]
             ELSE [seating |-> Some(parsed.seating.rows), error |-> Null]

\* the layouts an editing session that starts from initialLayout hands to
\* onSave: desks removed from the end until at most MaxKept are left, and a
\* click on the first seat of the first desk
EditorResults(initialLayout) ==
    LET kept == {initialLayout} \cup
                {SubSeq(initialLayout, 1, k) : k \in 0..Min(MaxKept, Len(initialLayout))}
        clicked == { <<ToggledDesk(l[1], 0)>> \o Tail(l) :
                       l \in {m \in kept : Len(m) > 0 /\ IsClickable(m[1].type, 0)} }
    IN  kept \cup clicked

AppInit ==
    /\ layoutObjects = parseLayoutMatrixToObjects(defaultLayout)
    /\ students = <<>>
    /\ seatingChart = Null
    /\ finalArrangement = Null
    /\ isLoading = FALSE
    /\ error = Null
    /\ isEditingLayout = FALSE
    /\ inFlight = <<>>
    /\ requestsSent = 0
    /\ lastAppEvent = [handler |-> "none"]
    /\ lastChange = "none"
    /\ ConvIdle
    /\ EditorIdle
    /\ StorageIdle
    /\ DictationIdle

\* the controls of the page are out of reach while the editor is shown in
\* its place or the modal covers it

\* onChange of the roster field, shown while no arrangement exists
handleStudentsChange(text) ==
    /\ ~isEditingLayout
    /\ ~isManageLayoutsModalOpen
    /\ finalArrangement = Null
    /\ students' = text
    /\ lastAppEvent' = [handler |-> "handleStudentsChange"]
    /\ UNCHANGED <<lastChange, layoutObjects, seatingChart, finalArrangement, isLoading, error,
                   isEditingLayout, inFlight, requestsSent, convVars,
                   editorVars, storageVars, dictationVars>>

handleEnterEditMode ==
    /\ ~isEditingLayout
    /\ ~isManageLayoutsModalOpen
    /\ isEditingLayout' = TRUE
    /\ lastAppEvent' = [handler |-> "handleEnterEditMode"]
    /\ UNCHANGED <<lastChange, layoutObjects, students, seatingChart, finalArrangement, isLoading,
                   error, inFlight, requestsSent, convVars,
                   editorVars, storageVars, dictationVars>>

handleCancelEdit ==
    /\ isEditingLayout
    /\ isEditingLayout' = FALSE
    /\ lastAppEvent' = [handler |-> "handleCancelEdit"]
    /\ UNCHANGED <<lastChange, layoutObjects, students, seatingChart, finalArrangement, isLoading,
                   error, inFlight, requestsSent, convVars,
                   editorVars, storageVars, dictationVars>>

handleSaveLayout(newObjects) ==
    /\ isEditingLayout
    /\ layoutObjects' = newObjects
    /\ isEditingLayout' = FALSE
    /\ lastAppEvent' = [handler |-> "handleSaveLayout"]
    /\ UNCHANGED <<lastChange, students, seatingChart, finalArrangement, isLoading, error, inFlight,
                   requestsSent, convVars,
                   editorVars, storageVars, dictationVars>>

\* the sentence of a user-blocked seat; a text is a sequence of characters,
\* and each fixed part of the sentence is written as one element
BlockedSeatSentence(deskNumber, seatIndex) ==
    <<"V lavici c. ">> \o NumberToText(deskNumber) \o <<" je misto c. ">>
        \o NumberToText(seatIndex + 1) \o <<" (zleva) blokovano a nelze jej obsadit.">>

\* the sentences with the position of the desk in layoutObjects as its number
additionalConditions_InputOrder(desks, sortedForNumbering) ==
    LET ofDesk(k) ==
            [m \in DOMAIN desks[k].userBlockedSeats |->
                BlockedSeatSentence(k, desks[k].userBlockedSeats[m])]
        F[k \in 0..Len(desks)] == IF k = 0 THEN <<>> ELSE F[k - 1] \o ofDesk(k)
    IN  F[Len(desks)]

\* additionalConditions: for each desk in the order of layoutObjects, a
\* sentence for each of its user-blocked seats, with the desk's index in
\* sortedForNumbering plus one as its number
additionalConditions(desks, sortedForNumbering) ==
    LET ofDesk(k) ==
            LET deskNumber == DeskNumber(sortedForNumbering, desks[k].id)
            IN  IF deskNumber = 0 THEN <<>>
                ELSE [m \in DOMAIN desks[k].userBlockedSeats |->
                         BlockedSeatSentence(deskNumber, desks[k].userBlockedSeats[m])]
        F[k \in 0..Len(desks)] == IF k = 0 THEN <<>> ELSE F[k - 1] \o ofDesk(k)
    IN  F[Len(desks)]

\* [conditions, ...additionalConditions].join('\n').trim(); sortedForNumbering
\* is the outcome of the same sort of the same array as the numbering sort of
\* convertObjectsToLayoutMatrix, hence the same order
finalConditions(conditionsText, desks, sortedForNumbering) ==
    Trim(Join(<<conditionsText>> \o additionalConditions(desks, sortedForNumbering),
              <<"\n">>))

\* the code units of the characters of the model, in their order
CodeUnitOrder == <<"\n", " ", ",", ".", "A", "B", "C", "a", "b", "c">>

CodeUnit(c) == CHOOSE i \in DOMAIN CodeUnitOrder : CodeUnitOrder[i] = c

RECURSIVE CompareCodeUnits(_, _)
\* the default comparison of Array.prototype.sort: by code units
CompareCodeUnits(a, b) ==
    IF Len(a) = 0 THEN (IF Len(b) = 0 THEN 0 ELSE -1)
    ELSE IF Len(b) = 0 THEN 1
    ELSE IF a[1] # b[1] THEN CodeUnit(a[1]) - CodeUnit(b[1])
    ELSE CompareCodeUnits(Tail(a), Tail(b))

RECURSIVE InsertString(_, _)
InsertString(sorted, e) ==
    IF Len(sorted) = 0 THEN <<e>>
    ELSE IF CompareCodeUnits(sorted[Len(sorted)], e) <= 0 THEN Append(sorted, e)
    ELSE Append(InsertString(SubSeq(sorted, 1, Len(sorted) - 1), e), sorted[Len(sorted)])

RECURSIVE SortStrings(_)
\* names.sort()
SortStrings(names) ==
    IF Len(names) = 0 THEN <<>>
    ELSE InsertString(SortStrings(SubSeq(names, 1, Len(names) - 1)), names[Len(names)])

\* studentsFromChart of handleClearChart
studentsFromChart(arrangement) == SortStrings(StudentListOfArrangement(arrangement))

\* the button that discards the arrangement, shown while one exists
handleClearChart ==
    /\ ~isEditingLayout
    /\ ~isManageLayoutsModalOpen
    /\ finalArrangement # Null
    /\ students' = Join(studentsFromChart(finalArrangement[1]), <<"\n">>)
    /\ seatingChart' = Null
    /\ finalArrangement' = Null
    /\ conditions' = <<>>
    /\ error' = Null
    /\ lastAppEvent' = [handler |-> "handleClearChart"]
    /\ lastChange' = "discard"
    /\ UNCHANGED <<layoutObjects, isLoading, isEditingLayout, inFlight, requestsSent,
                   dictationTarget, baseTextOnListenStart, isListening, sessions,
                   recognitionRef, lastDictationEvent, dictationEvents, convVars,
                   editorVars, storageVars>>

\* the click on the generate button up to the await: the checks, then the
\* call of generateSeatingArrangement with the closure of its continuation
handleGenerateClick ==
    /\ ~isEditingLayout
    /\ ~isManageLayoutsModalOpen
    /\ GenerateButtonEnabled
    /\ \E uiSortedObjects \in UiSortOutcomes(layoutObjects) :
          LET isModification == finalArrangement # Null
              conv == convertObjectsToLayoutMatrix(layoutObjects, uiSortedObjects)
              studentList == IF isModification
                             THEN StudentListOfArrangement(finalArrangement[1])
                             ELSE StudentListOfText(students)
              abort == validationError(conv, isModification, studentList, layoutObjects)
          IN  /\ seatingChart' = Null
              /\ finalArrangement' = IF isModification \/ abort = EmptyLayoutError
                                     THEN finalArrangement
                                     ELSE Null
              /\ IF abort # Null
                 THEN /\ error' = abort
                      /\ isLoading' = FALSE
                      /\ UNCHANGED <<inFlight, requestsSent>>
                 ELSE /\ requestsSent < MaxRequests
                      /\ error' = Null
                      /\ isLoading' = TRUE
                      /\ inFlight' = Append(inFlight,
                            [matrix |-> conv.matrix,
                             students |-> studentList,
                             conditions |-> finalConditions(conditions, layoutObjects,
                                                            uiSortedObjects),
                             numberedMatrix |-> conv.numberedMatrix,
                             isModification |-> isModification,
                             layoutObjects |-> layoutObjects,
                             layout |-> conv.layout,
                             positionMap |-> conv.positionMap])
                      /\ requestsSent' = requestsSent + 1
    /\ lastAppEvent' = [handler |-> "handleGenerateClick",
                         isModification |-> finalArrangement # Null]
    /\ lastChange' = "generate"
    /\ UNCHANGED <<layoutObjects, students, isEditingLayout, convVars,
                   editorVars, storageVars, dictationVars>>

\* the continuation of handleGenerateClick after the await, for the i-th
\* outstanding call; when row.forEach throws, the statements after it are not
\* run and the promise of the handler is rejected
handleGenerateResult(i, response) ==
    /\ i \in DOMAIN inFlight
    /\ LET result == generateSeatingArrangement(response)
       IN  /\ IF Truthy(result.error)
              THEN /\ error' = result.error
                   /\ isLoading' = FALSE
                   /\ UNCHANGED <<finalArrangement, seatingChart>>
              ELSE IF result.seating # Null
              THEN IF RowForEachThrows(result.seating[1])
                   THEN UNCHANGED <<error, finalArrangement, seatingChart, isLoading>>
                   ELSE /\ finalArrangement' =
                              Some(populatedLayoutObjects(inFlight[i].layoutObjects,
                                       inFlight[i].positionMap, result.seating[1]))
                        /\ seatingChart' = result.seating
                        /\ isLoading' = FALSE
                        /\ UNCHANGED error
              ELSE /\ isLoading' = FALSE
                   /\ UNCHANGED <<error, finalArrangement, seatingChart>>
           /\ lastAppEvent' = [handler |-> "handleGenerateResult", call |-> inFlight[i],
                               response |-> response, result |-> result]
    /\ inFlight' = SubSeq(inFlight, 1, i - 1) \o SubSeq(inFlight, i + 1, Len(inFlight))
    /\ UNCHANGED <<layoutObjects, students, isEditingLayout, requestsSent, lastChange,
                   convVars,
                   editorVars, storageVars, dictationVars>>

\* a call of generateSeatingArrangement returns
ResultArrives ==
    \E i \in DOMAIN inFlight : \E response \in AiResponses(inFlight[i]) :
        handleGenerateResult(i, response)

AppNext ==
    \/ \E text \in StudentTexts : handleStudentsChange(text)
    \/ handleEnterEditMode
    \/ handleCancelEdit
    \/ \E newObjects \in EditorResults(layoutObjects) : handleSaveLayout(newObjects)
    \/ handleGenerateClick
    \/ ResultArrives

SpecApp == AppInit /\ [][AppNext]_vars

\* the call of generateContent fails
CallRejected ==
    \E i \in DOMAIN inFlight : handleGenerateResult(i, [kind |-> "rejected"])

\* an outstanding call of generateSeatingArrangement returns: the promise of
\* generateContent settles, and the try block has a catch block that returns.
\* CallRejected is enabled exactly when ResultArrives is, while a call is
\* outstanding, and each return ends the only outstanding call, so weak
\* fairness of either says that no call stays outstanding for ever
SpecAppFair == AppInit /\ [][AppNext]_vars /\ WF_vars(CallRejected)

\* ------------------------------------------------------------------------
\* App: the saved classrooms (GeneratedChart.tsx:314-401, ManageLayoutsModal)
\* ------------------------------------------------------------------------
\* the largest number of storage handlers in one run
MaxStorageOps == 3

\* the letters of classroom names, in the order of localeCompare
NameAlphabet == <<"A", "B", "C">>

CharRank(c) == CHOOSE i \in DOMAIN NameAlphabet : NameAlphabet[i] = c

RECURSIVE localeCompare(_, _)
\* a.localeCompare(b) on names over NameAlphabet
localeCompare(a, b) ==
    IF Len(a) = 0 /\ Len(b) = 0 THEN 0
    ELSE IF Len(a) = 0 THEN -1
    ELSE IF Len(b) = 0 THEN 1
    ELSE IF a[1] = b[1] THEN localeCompare(Tail(a), Tail(b))
    ELSE CharRank(a[1]) - CharRank(b[1])

RECURSIVE InsertByName(_, _)
InsertByName(sorted, e) ==
    IF Len(sorted) = 0 THEN <<e>>
    ELSE IF localeCompare(sorted[Len(sorted)].name, e.name) <= 0 THEN Append(sorted, e)
    ELSE Append(InsertByName(SubSeq(sorted, 1, Len(sorted) - 1), e), sorted[Len(sorted)])

RECURSIVE SortByName(_)
\* updatedLayouts.sort((a, b) => a.name.localeCompare(b.name)), a stable sort
SortByName(seq) ==
    IF Len(seq) = 0 THEN <<>>
    ELSE InsertByName(SortByName(SubSeq(seq, 1, Len(seq) - 1)), seq[Len(seq)])

\* the texts typed into the name field of the modal
LayoutNames == { <<" ">>, <<"A">>, <<" ", "B">>, <<"C", " ">> }

\* { name, layout, arrangement }; an arrangement that is absent is null
SavedClassroom(name, layout, arrangement) ==
    [name |-> name, layout |-> layout, arrangement |-> arrangement]

\* the layouts of the imported records
SmallLayout == <<MakeDesk(NewId(1), T11, 0, 0, 0)>>

SmallArrangement == <<WithStudents(SmallLayout[1], << <<"a">>, <<>> >>)>>

\* an element of an imported array: a record whose name and layout may be
\* absent (Null), or the JSON value null
Element(name, layout, arrangement) ==
    [isNull |-> FALSE, name |-> name, layout |-> layout, arrangement |-> arrangement]

NullElement == [isNull |-> TRUE, name |-> Null, layout |-> Null, arrangement |-> Null]

\* the files chosen for import: a text JSON.parse rejects, a value that is
\* not an array, and arrays; the elements after the first are well-formed
ImportDocuments ==
    { [parses |-> FALSE, isArray |-> FALSE, elements |-> <<>>],
      [parses |-> TRUE, isArray |-> FALSE, elements |-> <<>>],
      [parses |-> TRUE, isArray |-> TRUE, elements |-> <<>>],
      [parses |-> TRUE, isArray |-> TRUE, elements |-> <<NullElement>>],
      [parses |-> TRUE, isArray |-> TRUE,
       elements |-> <<Element(Null, Some(SmallLayout), Null)>>],
      [parses |-> TRUE, isArray |-> TRUE,
       elements |-> <<Element(Some(<<>>), Some(SmallLayout), Null)>>],
      [parses |-> TRUE, isArray |-> TRUE,
       elements |-> <<Element(Some(<<"A">>), Null, Null)>>],
      [parses |-> TRUE, isArray |-> TRUE,
       elements |-> <<Element(Some(<<"B">>), Some(SmallLayout), Some(SmallArrangement))>>],
      [parses |-> TRUE, isArray |-> TRUE,
       elements |-> <<Element(Some(<<"C">>), Some(<<>>), Null),
                      Element(Some(<<"A">>), Some(SmallLayout), Null)>>],
      [parses |-> TRUE, isArray |-> TRUE,
       elements |-> <<Element(Some(<<"A">>), Some(SmallLayout), Null),
                      Element(Some(<<"A">>), Some(<<>>), Null)>>] }

\* the check that also rejects the empty array
ImportAccepted_NonEmpty(document) ==
    /\ document.parses
    /\ document.isArray
    /\ Len(document.elements) > 0
    /\ ~document.elements[1].isNull
    /\ document.elements[1].name # Null
    /\ document.elements[1].name # Some(<<>>)
    /\ document.elements[1].layout # Null

\* Array.isArray(data) && (data.length === 0 || (data[0].name && data[0].layout));
\* reading data[0].name of null throws, which the catch block answers
ImportAccepted(document) ==
    /\ document.parses
    /\ document.isArray
    /\ \/ Len(document.elements) = 0
       \/ /\ ~document.elements[1].isNull
          /\ document.elements[1].name # Null
          /\ document.elements[1].name # Some(<<>>)
          /\ document.elements[1].layout # Null

\* the parsed array as a list of saved classrooms
ImportedList(document) ==
    [i \in DOMAIN document.elements |->
        SavedClassroom(document.elements[i].name[1], document.elements[i].layout[1],
                       document.elements[i].arrangement)]

\* the list JSON.parse gives for the stored item
PersistedList == IF localStorage = Null THEN <<>> ELSE localStorage[1]

\* savedLayouts.findIndex(l => l.name === name), 1-based, 0 when not found
RECURSIVE FindNameFrom(_, _, _)
FindNameFrom(seq, name, i) ==
    IF i > Len(seq) THEN 0
    ELSE IF seq[i].name = name THEN i
    ELSE FindNameFrom(seq, name, i + 1)

SaveLayoutError == Some("Nepodarilo se ulozit rozlozeni")

DeleteLayoutError == Some("Nepodarilo se smazat rozlozeni")

ImportError == Some("Nepodarilo se naimportovat data")

\* the initial load effect: savedLayouts is the stored list
StorageInit ==
    /\ localStorage \in {Null, Some(<<SavedClassroom(<<"B">>, SmallLayout, Null)>>)}
    /\ savedLayouts = PersistedList
    /\ isManageLayoutsModalOpen = FALSE
    /\ lastStorageEvent = [handler |-> "none"]
    /\ storageOps = 0
    /\ layoutObjects = parseLayoutMatrixToObjects(defaultLayout)
    /\ students = <<>>
    /\ seatingChart = Null
    /\ finalArrangement = Null
    /\ isLoading = FALSE
    /\ error = Null
    /\ isEditingLayout = FALSE
    /\ inFlight = <<>>
    /\ requestsSent = 0
    /\ lastAppEvent = [handler |-> "none"]
    /\ lastChange = "none"
    /\ ConvIdle
    /\ EditorIdle
    /\ DictationIdle

\* the buttons that open and close the modal
openManageLayoutsModal ==
    /\ ~isEditingLayout
    /\ ~isManageLayoutsModalOpen
    /\ isManageLayoutsModalOpen' = TRUE
    /\ UNCHANGED <<savedLayouts, localStorage, lastStorageEvent, storageOps, convVars,
                   editorVars, appVars, dictationVars>>

closeManageLayoutsModal ==
    /\ isManageLayoutsModalOpen
    /\ isManageLayoutsModalOpen' = FALSE
    /\ UNCHANGED <<savedLayouts, localStorage, lastStorageEvent, storageOps, convVars,
                   editorVars, appVars, dictationVars>>

\* the App state the storage handlers leave alone
appVarsButError == <<layoutObjects, students, seatingChart, finalArrangement, isLoading,
                     isEditingLayout, inFlight, requestsSent, lastAppEvent, lastChange>>

\* the save that adds a record whether or not the name exists
handleSaveLayoutToStorage_AlwaysAppend(name, layout, arrangement, writeSucceeds) ==
    LET newSavedClassroom == SavedClassroom(name, layout, arrangement)
        updatedLayouts == SortByName(Append(savedLayouts, newSavedClassroom))
    IN  IF writeSucceeds
        THEN /\ localStorage' = Some(updatedLayouts)
             /\ savedLayouts' = updatedLayouts
             /\ UNCHANGED error
        ELSE /\ error' = SaveLayoutError
             /\ UNCHANGED <<savedLayouts, localStorage>>

\* writeSucceeds: localStorage.setItem returns; otherwise it throws
handleSaveLayoutToStorage(name, layout, arrangement, writeSucceeds) ==
    LET newSavedClassroom == SavedClassroom(name, layout, arrangement)
        existingLayoutIndex == FindNameFrom(savedLayouts, name, 1)
        updatedLayouts ==
            SortByName(IF existingLayoutIndex > 0
                       THEN SetAt(savedLayouts, existingLayoutIndex, newSavedClassroom)
                       ELSE Append(savedLayouts, newSavedClassroom))
    IN  IF writeSucceeds
        THEN /\ localStorage' = Some(updatedLayouts)
             /\ savedLayouts' = updatedLayouts
             /\ UNCHANGED error
        ELSE /\ error' = SaveLayoutError
             /\ UNCHANGED <<savedLayouts, localStorage>>

\* the save button of the modal; confirmed is the answer of window.confirm
handleSaveClick(newLayoutName, confirmed, writeSucceeds) ==
    /\ isManageLayoutsModalOpen
    /\ storageOps < MaxStorageOps
    /\ LET trimmedName == Trim(newLayoutName)
       IN  IF trimmedName = <<>>
              \/ (FindNameFrom(savedLayouts, trimmedName, 1) > 0 /\ ~confirmed)
           THEN UNCHANGED <<savedLayouts, localStorage, error>>
           ELSE handleSaveLayoutToStorage(trimmedName, layoutObjects, finalArrangement,
                                          writeSucceeds)
    /\ lastStorageEvent' = [handler |-> "handleSaveClick", name |-> Trim(newLayoutName),
                            confirmed |-> confirmed, writeSucceeds |-> writeSucceeds]
    /\ storageOps' = storageOps + 1
    /\ UNCHANGED <<isManageLayoutsModalOpen, appVarsButError, convVars, editorVars,
                   dictationVars>>

handleDeleteLayoutFromStorage(name, writeSucceeds) ==
    LET updatedLayouts == SelectSeq(savedLayouts, LAMBDA l : l.name # name)
    IN  IF writeSucceeds
        THEN /\ localStorage' = Some(updatedLayouts)
             /\ savedLayouts' = updatedLayouts
             /\ UNCHANGED error
        ELSE /\ error' = DeleteLayoutError
             /\ UNCHANGED <<savedLayouts, localStorage>>

\* the delete button of a list entry of the modal
handleDeleteClick(name, confirmed, writeSucceeds) ==
    /\ isManageLayoutsModalOpen
    /\ storageOps < MaxStorageOps
    /\ FindNameFrom(savedLayouts, name, 1) > 0
    /\ IF confirmed
       THEN handleDeleteLayoutFromStorage(name, writeSucceeds)
       ELSE UNCHANGED <<savedLayouts, localStorage, error>>
    /\ lastStorageEvent' = [handler |-> "handleDeleteClick", name |-> name,
                            confirmed |-> confirmed, writeSucceeds |-> writeSucceeds]
    /\ storageOps' = storageOps + 1
    /\ UNCHANGED <<isManageLayoutsModalOpen, appVarsButError, convVars, editorVars,
                   dictationVars>>

\* the load button of a list entry of the modal
handleLoadLayoutFromStorage(saved) ==
    /\ isManageLayoutsModalOpen
    /\ layoutObjects' = saved.layout
    /\ finalArrangement' = saved.arrangement
    /\ seatingChart' = Null
    /\ isManageLayoutsModalOpen' = FALSE
    /\ lastStorageEvent' = [handler |-> "handleLoadLayoutFromStorage", name |-> saved.name]
    /\ lastChange' = "load"
    /\ UNCHANGED <<savedLayouts, localStorage, storageOps, students, isLoading, error,
                   isEditingLayout, inFlight, requestsSent, lastAppEvent, convVars,
                   editorVars, dictationVars>>

\* reader.onload of handleImportFileChange: setSavedLayouts(data) comes before
\* localStorage.setItem, and the catch block does not undo it
handleImportFileChange(document, writeSucceeds) ==
    /\ storageOps < MaxStorageOps
    /\ IF ImportAccepted(document)
       THEN /\ savedLayouts' = ImportedList(document)
            /\ IF writeSucceeds
               THEN /\ localStorage' = Some(ImportedList(document))
                    /\ UNCHANGED error
               ELSE /\ error' = ImportError
                    /\ UNCHANGED localStorage
       ELSE /\ error' = ImportError
            /\ UNCHANGED <<savedLayouts, localStorage>>
    /\ lastStorageEvent' = [handler |-> "handleImportFileChange", document |-> document,
                            writeSucceeds |-> writeSucceeds]
    /\ storageOps' = storageOps + 1
    /\ UNCHANGED <<isManageLayoutsModalOpen, appVarsButError, convVars, editorVars,
                   dictationVars>>

StorageNext ==
    \/ openManageLayoutsModal
    \/ closeManageLayoutsModal
    \/ \E newLayoutName \in LayoutNames : \E confirmed, writeSucceeds \in BOOLEAN :
          handleSaveClick(newLayoutName, confirmed, writeSucceeds)
    \/ \E i \in DOMAIN savedLayouts : \E confirmed, writeSucceeds \in BOOLEAN :
          handleDeleteClick(savedLayouts[i].name, confirmed, writeSucceeds)
    \/ \E i \in DOMAIN savedLayouts : handleLoadLayoutFromStorage(savedLayouts[i])
    \/ \E document \in ImportDocuments : \E writeSucceeds \in BOOLEAN :
          handleImportFileChange(document, writeSucceeds)

SpecStorage == StorageInit /\ [][StorageNext]_vars

\* ------------------------------------------------------------------------
\* App: dictation (GeneratedChart.tsx:201-282, useSpeechRecognition.ts)
\* ------------------------------------------------------------------------
\* the largest number of recognition result events in one run
MaxDictationEvents == 3

\* the largest number of SpeechRecognition objects created in one run
MaxSessions == 2

LowerCaseLetters == <<"a", "b", "c">>

UpperCaseLetters == <<"A", "B", "C">>

toUpperCase(c) ==
    IF \E i \in DOMAIN LowerCaseLetters : LowerCaseLetters[i] = c
    THEN UpperCaseLetters[CHOOSE i \in DOMAIN LowerCaseLetters : LowerCaseLetters[i] = c]
    ELSE c

toLowerCase(c) ==
    IF \E i \in DOMAIN UpperCaseLetters : UpperCaseLetters[i] = c
    THEN LowerCaseLetters[CHOOSE i \in DOMAIN UpperCaseLetters : UpperCaseLetters[i] = c]
    ELSE c

\* word.charAt(0).toUpperCase() + word.slice(1).toLowerCase(), '' for ''
CapitalizeWord(word) ==
    [i \in DOMAIN word |-> IF i = 1 THEN toUpperCase(word[i]) ELSE toLowerCase(word[i])]

capitalizeNames(text) ==
    LET words == Split(text, " ")
    IN  Join([i \in DOMAIN words |-> CapitalizeWord(words[i])], <<" ">>)

\* transcript.replace(/[.,]/g, ' ')
ReplacePunctuation(text) ==
    [i \in DOMAIN text |-> IF text[i] \in {".", ","} THEN " " ELSE text[i]]

RECURSIVE CollapseSpaces(_)
\* text.replace(/\s+/g, ' ')
CollapseSpaces(text) ==
    IF Len(text) = 0 THEN <<>>
    ELSE LET front == CollapseSpaces(SubSeq(text, 1, Len(text) - 1))
             c == text[Len(text)]
         IN  IF ~IsSpace(c) THEN Append(front, c)
             ELSE IF Len(text) > 1 /\ IsSpace(text[Len(text) - 1]) THEN front
             ELSE Append(front, " ")

RECURSIVE PairWords(_)
\* the loop over words in steps of two
PairWords(words) ==
    IF Len(words) = 0 THEN <<>>
    ELSE IF Len(words) = 1 THEN <<words[1]>>
    ELSE <<words[1] \o <<" ">> \o words[2]>> \o PairWords(SubSeq(words, 3, Len(words)))

\* processedTranscript of handleDictationResult
processedTranscript(target, transcript) ==
    IF target = "students"
    THEN LET cleanedTranscript == Trim(CollapseSpaces(ReplacePunctuation(transcript)))
             capitalized == capitalizeNames(cleanedTranscript)
             words == SelectSeq(Split(capitalized, " "), LAMBDA w : Len(w) > 0)
         IN  Join(PairWords(words), <<"\n">>)
    ELSE [i \in DOMAIN transcript |->
             IF i = 1 THEN toUpperCase(transcript[i]) ELSE transcript[i]]

separator(target) == IF target = "students" THEN <<"\n">> ELSE <<" ">>

\* the live text with the transcript put directly after the base text
liveText_NoSeparator(currentBase, target, transcript) ==
    currentBase \o processedTranscript(target, transcript)

\* (currentBase ? `${currentBase}${separator}` : '') + processedTranscript
liveText(currentBase, target, transcript) ==
    (IF currentBase # <<>> THEN currentBase \o separator(target) ELSE <<>>)
        \o processedTranscript(target, transcript)

\* the cumulative transcripts of a session: interim results are revised, so
\* a transcript need not extend the one before it
Transcripts ==
    { <<"a">>,
      <<"a", " ", "b", ",", " ", "c">>,
      <<"A", "B", ".", " ", " ", "c", " ", "a", " ", "b">> }

\* the texts typed into the conditions field
ConditionTexts == { <<"b", " ">>, <<"c">> }

DictationInit ==
    /\ conditions = <<>>
    /\ dictationTarget = Null
    /\ baseTextOnListenStart = <<>>
    /\ isListening = FALSE
    /\ sessions = <<>>
    /\ recognitionRef = 0
    /\ lastDictationEvent = [handler |-> "none"]
    /\ dictationEvents = 0
    /\ layoutObjects = parseLayoutMatrixToObjects(defaultLayout)
    /\ students = <<>>
    /\ seatingChart = Null
    /\ finalArrangement \in {Null, Some(SmallArrangement)}
    /\ isLoading = FALSE
    /\ error = Null
    /\ isEditingLayout = FALSE
    /\ inFlight = <<>>
    /\ requestsSent = 0
    /\ lastAppEvent = [handler |-> "none"]
    /\ lastChange = "none"
    /\ ConvIdle
    /\ EditorIdle
    /\ StorageIdle

\* onChange of the conditions field
handleConditionsChange(text) ==
    /\ ~isEditingLayout
    /\ ~isManageLayoutsModalOpen
    /\ conditions' = text
    /\ lastDictationEvent' = [handler |-> "handleConditionsChange"]
    /\ UNCHANGED <<dictationTarget, baseTextOnListenStart, isListening, sessions,
                   recognitionRef, dictationEvents, convVars, editorVars, appVars,
                   storageVars>>

\* the objects on which start() was called and onend has not yet run
Unended == {k \in DOMAIN sessions : sessions[k] # "ended"}

\* stopListening: recognitionRef.current.stop() when the ref is not null; stop()
\* acts on a session that is running
stopListening ==
    sessions' = [k \in DOMAIN sessions |->
                    IF k = recognitionRef /\ sessions[k] = "active" THEN "stopping"
                    ELSE sessions[k]]

\* startListening: it returns when isListening, and otherwise creates an
\* object, stores it in the ref and calls start()
startListening ==
    /\ ~isListening
    /\ Len(sessions) < MaxSessions
    /\ sessions' = Append(sessions, "starting")
    /\ recognitionRef' = Len(sessions) + 1

\* a click on a microphone button, which is disabled while listening for the
\* other target: it stops the session when listening, and otherwise captures
\* the base text and starts a session
handleMicClick(target) ==
    /\ ~isEditingLayout
    /\ ~isManageLayoutsModalOpen
    /\ target = "students" => finalArrangement = Null
    /\ ~(isListening /\ dictationTarget # Some(target))
    /\ IF isListening
       THEN /\ stopListening
            /\ UNCHANGED <<conditions, dictationTarget, baseTextOnListenStart,
                           recognitionRef>>
       ELSE /\ startListening
            /\ dictationTarget' = Some(target)
            /\ IF target = "conditions"
               THEN IF finalArrangement # Null
                    THEN /\ conditions' = <<>>
                         /\ baseTextOnListenStart' = <<>>
                    ELSE /\ baseTextOnListenStart' = Trim(conditions)
                         /\ UNCHANGED conditions
               ELSE /\ baseTextOnListenStart' = Trim(students)
                    /\ UNCHANGED conditions
    /\ lastDictationEvent' = [handler |-> "handleMicClick", target |-> target]
    /\ UNCHANGED <<isListening, dictationEvents, convVars, editorVars, appVars,
                   storageVars>>

\* recognition.onstart of the k-th object
onstart(k) ==
    /\ sessions[k] = "starting"
    /\ sessions' = [sessions EXCEPT ![k] = "active"]
    /\ isListening' = TRUE
    /\ lastDictationEvent' = [handler |-> "onstart"]
    /\ UNCHANGED <<conditions, dictationTarget, baseTextOnListenStart, recognitionRef,
                   dictationEvents, convVars, editorVars, appVars, storageVars>>

\* recognition.onresult of the k-th object with the transcript of all results
\* of its session, and handleDictationResult, which it calls through
\* onResultRef
onresult(k, transcript) ==
    /\ sessions[k] \in {"active", "stopping"}
    /\ dictationEvents < MaxDictationEvents
    /\ IF dictationTarget = Null
       THEN UNCHANGED <<students, conditions>>
       ELSE IF dictationTarget[1] = "students"
       THEN /\ students' = liveText(baseTextOnListenStart, "students", transcript)
            /\ UNCHANGED conditions
       ELSE /\ conditions' = liveText(baseTextOnListenStart, "conditions", transcript)
            /\ UNCHANGED students
    /\ lastDictationEvent' = [handler |-> "onresult", transcript |-> transcript,
                               target |-> dictationTarget,
                               base |-> baseTextOnListenStart,
                               text |-> IF dictationTarget = Null THEN <<>>
                                        ELSE IF dictationTarget[1] = "students"
                                        THEN students' ELSE conditions']
    /\ dictationEvents' = dictationEvents + 1
    /\ UNCHANGED <<dictationTarget, baseTextOnListenStart, isListening, sessions,
                   recognitionRef,
                   layoutObjects, seatingChart, finalArrangement, isLoading, error,
                   isEditingLayout, inFlight, requestsSent, lastAppEvent, lastChange,
                   convVars, editorVars, storageVars>>

\* recognition.onerror of the k-th object, which may come before onstart, and
\* the effect that clears the target when isListening has changed to false;
\* the session then ends without results
onerror(k) ==
    /\ sessions[k] \in {"starting", "active", "stopping"}
    /\ sessions' = [sessions EXCEPT ![k] = "failed"]
    /\ isListening' = FALSE
    /\ dictationTarget' = IF isListening THEN Null ELSE dictationTarget
    /\ lastDictationEvent' = [handler |-> "onerror"]
    /\ UNCHANGED <<conditions, baseTextOnListenStart, recognitionRef, dictationEvents,
                   convVars, editorVars, appVars, storageVars>>

\* recognition.onend of the k-th object: it sets the ref to null whichever
\* object the ref holds; and the same effect
onend(k) ==
    /\ sessions[k] \in {"active", "stopping", "failed"}
    /\ sessions' = [sessions EXCEPT ![k] = "ended"]
    /\ recognitionRef' = 0
    /\ isListening' = FALSE
    /\ dictationTarget' = IF isListening THEN Null ELSE dictationTarget
    /\ lastDictationEvent' = [handler |-> "onend"]
    /\ UNCHANGED <<conditions, baseTextOnListenStart, dictationEvents, convVars,
                   editorVars, appVars, storageVars>>

DictationNext ==
    \/ \E text \in StudentTexts : handleStudentsChange(text)
    \/ \E text \in ConditionTexts : handleConditionsChange(text)
    \/ \E target \in {"students", "conditions"} : handleMicClick(target)
    \/ \E k \in DOMAIN sessions : onstart(k)
    \/ \E k \in DOMAIN sessions : \E transcript \in Transcripts : onresult(k, transcript)
    \/ \E k \in DOMAIN sessions : onerror(k)
    \/ \E k \in DOMAIN sessions : onend(k)

SpecDictation == DictationInit /\ [][DictationNext]_vars

\* ------------------------------------------------------------------------
\* App: a session with generated, loaded and discarded arrangements
\* ------------------------------------------------------------------------
\* the page is opened with two classrooms saved earlier, one of them with an
\* arrangement
ClassroomInit ==
    /\ localStorage = Some(<< SavedClassroom(<<"A">>, SmallLayout, Some(SmallArrangement)),
                              SavedClassroom(<<"B">>, SmallLayout, Null) >>)
    /\ savedLayouts = PersistedList
    /\ isManageLayoutsModalOpen = FALSE
    /\ lastStorageEvent = [handler |-> "none"]
    /\ storageOps = 0
    /\ layoutObjects = parseLayoutMatrixToObjects(defaultLayout)
    /\ students = <<>>
    /\ seatingChart = Null
    /\ finalArrangement = Null
    /\ isLoading = FALSE
    /\ error = Null
    /\ isEditingLayout = FALSE
    /\ inFlight = <<>>
    /\ requestsSent = 0
    /\ lastAppEvent = [handler |-> "none"]
    /\ lastChange = "none"
    /\ ConvIdle
    /\ EditorIdle
    /\ DictationIdle

\* the answers of the service in a session: the call fails, the text is not
\* JSON, the service reports an error, it seats the roster, and it sends an
\* array with a null row
ClassroomResponses(call) ==
    { [kind |-> "rejected"],
      [kind |-> "text", json |-> Null],
      [kind |-> "text",
       json |-> Some([error |-> AiReportedError, seating |-> ArraySeating(<<>>)])],
      [kind |-> "text",
       json |-> Some([error |-> Null,
                      seating |-> ArraySeating(SeatInOrder(call.layout, call.students, <<>>))])],
      [kind |-> "text",
       json |-> Some([error |-> Null,
                      seating |-> ArraySeating(NullRowSeating(call.layout, call.students))])] }

ClassroomResultArrives ==
    \E i \in DOMAIN inFlight : \E response \in ClassroomResponses(inFlight[i]) :
        handleGenerateResult(i, response)

\* the roster is not typed in a session: it is the names of a discarded
\* arrangement
ClassroomNext ==
    \/ \E text \in ConditionTexts : handleConditionsChange(text)
    \/ handleEnterEditMode
    \/ handleCancelEdit
    \/ \E newObjects \in EditorResults(layoutObjects) : handleSaveLayout(newObjects)
    \/ handleGenerateClick
    \/ ClassroomResultArrives
    \/ handleClearChart
    \/ openManageLayoutsModal
    \/ closeManageLayoutsModal
    \/ \E i \in DOMAIN savedLayouts : handleLoadLayoutFromStorage(savedLayouts[i])

SpecClassroom == ClassroomInit /\ [][ClassroomNext]_vars

\* ------------------------------------------------------------------------
\* Reading a conversion result
\* ------------------------------------------------------------------------
\* the cells of a matrix text: lines, each split at the commas
TextCells(text) ==
    LET lines == Split(text, "\n")
    IN  [r \in DOMAIN lines |-> Split(lines[r], ",")]

\* the 0-based <<row, col>> of the positionMap keys that hold the id
CellsOf(conv, id) ==
    {KeyToPos(k) : k \in {kk \in DOMAIN conv.positionMap : conv.positionMap[kk] = id}}

LineOf(conv, id) == (CHOOSE rc \in CellsOf(conv, id) : TRUE)[1]

ColOf(conv, id) == (CHOOSE rc \in CellsOf(conv, id) : TRUE)[2]

\* C1: for a non-empty layout all rows of the layout grid have the same
\* length, every desk id is the value of exactly one positionMap key, the
\* cell of that key holds the desk's type, and every cell that is not "--"
\* has a positionMap entry.
MatrixShape(objs, conv) ==
    /\ \A r1, r2 \in DOMAIN conv.layout : Len(conv.layout[r1]) = Len(conv.layout[r2])
    /\ \A i \in DOMAIN objs :
          /\ Cardinality({k \in DOMAIN conv.positionMap : conv.positionMap[k] = objs[i].id}) = 1
          /\ \A rc \in CellsOf(conv, objs[i].id) :
                /\ rc[1] + 1 \in DOMAIN conv.layout
                /\ rc[2] + 1 \in DOMAIN conv.layout[rc[1] + 1]
                /\ conv.layout[rc[1] + 1][rc[2] + 1] = objs[i].type
    /\ \A r \in DOMAIN conv.layout : \A c \in DOMAIN conv.layout[r] :
          conv.layout[r][c] # EmptyCell => PosKey(r - 1, c - 1) \in DOMAIN conv.positionMap

C1_MatrixShape ==
    (convPc # "input" /\ Len(objects) > 0) => MatrixShape(objects, converted)

\* a layout of two rows in which a desk found its column taken and was
\* appended behind the last column
C1_Witness ==
    /\ convPc = "converted"
    /\ Len(objects) >= 3
    /\ Len(converted.layout) >= 2
    /\ Len(converted.layout[1]) > Len(ColumnCenters(objects))
    /\ \E r \in DOMAIN converted.layout : \E c \in DOMAIN converted.layout[r] :
          converted.layout[r][c] = EmptyCell

\* C2: the matrix lines run from the back of the room to the front: a desk
\* of an earlier line never has a larger y than a desk of a later line, the
\* first line holds a desk of the smallest y and the last line a desk of the
\* largest y.
Orientation(objs, conv) ==
    LET lines == TextCells(conv.matrix)
        OnLine(i, r) ==
            /\ LineOf(conv, objs[i].id) = r
            /\ lines[r + 1][ColOf(conv, objs[i].id) + 1] = objs[i].type
    IN  /\ Len(lines) = Len(conv.layout)
        /\ \A i, j \in DOMAIN objs :
              LineOf(conv, objs[i].id) < LineOf(conv, objs[j].id) => objs[i].y <= objs[j].y
        /\ \E i \in DOMAIN objs :
              /\ \A j \in DOMAIN objs : objs[i].y <= objs[j].y
              /\ OnLine(i, 0)
        /\ \E i \in DOMAIN objs :
              /\ \A j \in DOMAIN objs : objs[i].y >= objs[j].y
              /\ OnLine(i, Len(lines) - 1)

NumberedLabels(conv) ==
    LET cells == TextCells(conv.numberedMatrix)
    IN  [r \in DOMAIN cells |-> [c \in DOMAIN cells[r] |-> TrimEnd(cells[r][c])]]

Label(n) == <<"L">> \o NumberToText(n)

\* C3: the labels of the numbered matrix are exactly L1..Ln, each once, at
\* the cells where the matrix holds a desk; every other cell is "--".
Numbering(objs, conv) ==
    LET labels == NumberedLabels(conv)
        cells == TextCells(conv.matrix)
    IN  /\ Len(labels) = Len(cells)
        /\ \A r \in DOMAIN labels : Len(labels[r]) = Len(cells[r])
        /\ \A n \in 1..Len(objs) :
              Cardinality({rc \in {<<r, c>> : r \in DOMAIN labels, c \in 1..Len(labels[1])} :
                             labels[rc[1]][rc[2]] = Label(n)}) = 1
        /\ \A r \in DOMAIN labels : \A c \in DOMAIN labels[r] :
              /\ (labels[r][c] = EmptyCell) <=> (cells[r][c] = EmptyCell)
              /\ labels[r][c] # EmptyCell => \E n \in 1..Len(objs) : labels[r][c] = Label(n)

C3_Numbering ==
    (convPc # "input" /\ Len(objects) >= 1) => Numbering(objects, converted)

\* a numbered matrix of two lines with a gap and at least three labels
C3_Witness ==
    /\ convPc = "converted"
    /\ Len(objects) >= 3
    /\ Len(converted.layout) >= 2
    /\ \E r \in DOMAIN NumberedLabels(converted) :
          \E c \in DOMAIN NumberedLabels(converted)[r] :
              NumberedLabels(converted)[r][c] = EmptyCell

RECURSIVE ReadFrontToBack(_, _)
\* the labels read from the last line to the first, left to right, gaps left out
ReadFrontToBack(labels, r) ==
    IF r < 1 THEN <<>>
    ELSE SelectSeq(labels[r], LAMBDA l : l # EmptyCell) \o ReadFrontToBack(labels, r - 1)

\* C4: read from the front row to the back row and left to right, the
\* numbered matrix of non-overlapping desks gives L1, L2, ..., Ln.
C4_ReadingOrder ==
    (convPc # "input" /\ Len(objects) >= 1 /\ NoOverlap(objects)) =>
        LET labels == NumberedLabels(converted)
        IN  ReadFrontToBack(labels, Len(labels)) = [n \in 1..Len(objects) |-> Label(n)]

TypeCount(objs, t) == Cardinality({i \in DOMAIN objs : objs[i].type = t})

\* C5 as stated: parsing the matrix of non-overlapping desks gives as many
\* desks with the same type codes, and converting the parsed desks gives the
\* same matrix text.
C5_RoundTripText ==
    (convPc = "reconverted" /\ NoOverlap(objects)) =>
        /\ Len(parsedObjects) = Len(objects)
        /\ \A i \in DOMAIN objects :
              TypeCount(parsedObjects, objects[i].type) = TypeCount(objects, objects[i].type)
        /\ reconverted.matrix = converted.matrix

\* the desks of each line of a grid, left to right, gaps left out
RowGrouping(grid) ==
    [r \in DOMAIN grid |-> SelectSeq(grid[r], LAMBDA cell : cell # EmptyCell)]

\* no two desks whose palette widths differ by DESK_WIDTH_UNITS or more
\* (a one-seat desk and a three-seat desk)
SimilarWidths(objs) ==
    \A i, j \in DOMAIN objs :
        Abs(DeskConfig(objs[i].type).width - DeskConfig(objs[j].type).width) < DESK_WIDTH_UNITS

\* C5 (amended): parsing the matrix of non-overlapping desks gives as many
\* desks with the same type codes; converting the parsed desks gives the same
\* lines of desks in the same left-to-right order, and the same matrix text
\* when the layout does not mix one-seat and three-seat desks.
C5_RoundTrip ==
    (convPc = "reconverted" /\ NoOverlap(objects)) =>
        /\ Len(parsedObjects) = Len(objects)
        /\ \A i \in DOMAIN objects :
              TypeCount(parsedObjects, objects[i].type) = TypeCount(objects, objects[i].type)
        /\ RowGrouping(reconverted.layout) = RowGrouping(converted.layout)
        /\ SimilarWidths(objects) => reconverted.matrix = converted.matrix

\* a round trip through a matrix of two lines with a gap, whose parsed desks
\* stand elsewhere than the original ones
C5_Witness ==
    /\ convPc = "reconverted"
    /\ NoOverlap(objects)
    /\ SimilarWidths(objects)
    /\ Len(objects) >= 3
    /\ Len(converted.layout) >= 2
    /\ \E r \in DOMAIN converted.layout : \E c \in DOMAIN converted.layout[r] :
          converted.layout[r][c] = EmptyCell
    /\ \E i \in DOMAIN objects :
          \A j \in DOMAIN parsedObjects :
              <<objects[i].x, objects[i].y>> # <<parsedObjects[j].x, parsedObjects[j].y>>

\* the rectangle handleDrop tests, the dragged width and height at the drop
\* position, overlaps the rectangle of a desk with another id (half-open
\* intervals on both axes)
DroppedRectangleOverlaps(gridX, gridY) ==
    LET drag == dragData[1]
        id == IF drag.id # Null THEN drag.id ELSE NewId(nextDeskId)
    IN  \E i \in DOMAIN editorLayoutObjects :
            LET desk == editorLayoutObjects[i]
            IN  /\ desk.id # id
                /\ gridX < desk.x + desk.width
                /\ desk.x < gridX + drag.width
                /\ gridY < desk.y + desk.height
                /\ desk.y < gridY + drag.height

\* C6: a drop of a new desk or of a moved desk whose rectangle at the drop
\* position overlaps the rectangle of any other desk leaves the editor's
\* desk list unchanged.
C6_CollisionRejected ==
    [][(/\ lastEvent'.handler = "handleDrop"
        /\ edits' = edits + 1
        /\ dragData # Null
        /\ DroppedRectangleOverlaps(lastEvent'.gridX, lastEvent'.gridY))
       => editorLayoutObjects' = editorLayoutObjects]_vars

\* a moved desk was dropped onto another desk and the drop was rejected
C6_Witness ==
    /\ lastEvent.handler = "handleDrop"
    /\ dragData # Null
    /\ ~dragData[1].isNew
    /\ DroppedRectangleOverlaps(lastEvent.gridX, lastEvent.gridY)
    /\ editorLayoutObjects = parseLayoutMatrixToObjects(defaultLayout)

\* the (desk, seat index) pairs that are neither structurally blocked (a '0'
\* of a code that has a '1') nor user-blocked
OccupiablePairs(layout) ==
    UNION { { <<i, s>> : s \in { t \in 0..(Len(layout[i].type) - 1) :
                                  /\ ~(HasOnes(layout[i].type) /\ layout[i].type[t + 1] = "0")
                                  /\ ~Includes(layout[i].userBlockedSeats, t) } } :
            i \in DOMAIN layout }

\* a single unblocked desk of the type
SingleDesk(type) == <<MakeDesk(NewId(0), type, 0, 0, 0)>>

\* C9: for every layout the editor reaches from the parsed default layout the
\* seat count of the generate action equals the number of occupiable
\* (desk, seat) pairs; unblocked desks "101", "00" and "11" count 2 each.
C9_AvailableSeats ==
    /\ availableSeats(editorLayoutObjects) = Cardinality(OccupiablePairs(editorLayoutObjects))
    /\ availableSeats(SingleDesk(T101)) = 2
    /\ availableSeats(SingleDesk(T00)) = 2
    /\ availableSeats(SingleDesk(T11)) = 2

\* a "101" desk dropped from the palette has one of its seats blocked by a click
C9_Witness ==
    \E i \in DOMAIN editorLayoutObjects :
        /\ editorLayoutObjects[i].type = T101
        /\ Len(editorLayoutObjects[i].userBlockedSeats) = 1
        /\ lastEvent.handler = "handleSeatClick"

\* C7: every call of generateSeatingArrangement is made with a non-empty
\* layout and a non-empty roster that is no larger than the number of
\* available seats of the layout, in generation and in modification mode.
C7_RequestValidated ==
    \A i \in DOMAIN inFlight :
        /\ Len(inFlight[i].layoutObjects) > 0
        /\ Len(inFlight[i].students) > 0
        /\ Len(inFlight[i].students) <= availableSeats(inFlight[i].layoutObjects)

\* the number of lines of the roster text that hold a name
RosterSize(text) ==
    LET lines == Split(text, "\n")
    IN  Cardinality({i \in DOMAIN lines : \E k \in DOMAIN lines[i] : ~IsSpace(lines[i][k])})

\* C8: with no arrangement, a click on the generate button with an empty
\* layout, an empty roster or a roster larger than the available seat count
\* sets an error, leaves isLoading false and the arrangement null, and makes
\* no call of generateSeatingArrangement.
C8_GenerationAborts ==
    [][(/\ lastAppEvent'.handler = "handleGenerateClick"
        /\ finalArrangement = Null
        /\ \/ Len(layoutObjects) = 0
           \/ RosterSize(students) = 0
           \/ RosterSize(students) > availableSeats(layoutObjects))
       => /\ error' # Null
          /\ isLoading' = FALSE
          /\ finalArrangement' = Null
          /\ requestsSent' = requestsSent
          /\ inFlight' = inFlight]_vars

\* a click with a roster of two names and a single free seat was aborted
C8_Witness ==
    /\ lastAppEvent.handler = "handleGenerateClick"
    /\ finalArrangement = Null
    /\ Len(layoutObjects) = 1
    /\ availableSeats(layoutObjects) = 1
    /\ RosterSize(students) = 2
    /\ error = InsufficientSeatsError
    /\ ~isLoading
    /\ requestsSent = 0

\* C10: at most one call of generateSeatingArrangement is outstanding, and
\* isLoading is true while one is.
C10_OneRequestInFlight ==
    /\ Len(inFlight) <= 1
    /\ inFlight # <<>> => isLoading

\* a second call is outstanding after the first has returned
C10_Witness ==
    /\ Len(inFlight) = 1
    /\ isLoading
    /\ requestsSent = 2
    /\ inFlight[1].isModification

\* C11: after every generate or modify action, whatever the AI service
\* returns, isLoading eventually returns to false.
C11_BusyFlagCleared == isLoading ~> ~isLoading

\* the step in which a call of generateSeatingArrangement returns
ResultStep == Len(inFlight') < Len(inFlight)

\* the response parsed and carried no error
ParsedWithoutError(response) ==
    /\ response.kind = "text"
    /\ response.json # Null
    /\ ~Truthy(response.json[1].error)

InvalidFormatError == Some("AI vratilo neplatny format dat")

\* C12: a response without an error whose seating field is missing or is
\* not an array gives a result with the invalid-response-format message,
\* which is not the communication-error message.
C12_InvalidFormatReported ==
    (/\ lastAppEvent.handler = "handleGenerateResult"
     /\ ParsedWithoutError(lastAppEvent.response)
     /\ lastAppEvent.response.json[1].seating.type # "array")
    => /\ lastAppEvent.result.error = InvalidFormatError
       /\ lastAppEvent.result.error # CommunicationError

\* C13: the result of generateSeatingArrangement has exactly one of seating
\* and error non-null; when the response has a non-empty error field the
\* result has that error and a null seating, no further call is made, and
\* the application's error is that string.
C13_ErrorVerbatim ==
    [][ResultStep =>
         LET response == lastAppEvent'.response
             result == lastAppEvent'.result
         IN  /\ (result.seating = Null) # (result.error = Null)
             /\ (/\ response.kind = "text"
                 /\ response.json # Null
                 /\ Truthy(response.json[1].error))
                => /\ result.error = response.json[1].error
                   /\ result.seating = Null
                   /\ requestsSent' = requestsSent
                   /\ inFlight' = <<>>
                   /\ error' = response.json[1].error]_vars

\* the AI answered with an error next to a seating array, and the
\* application shows the error
C13_Witness ==
    /\ lastAppEvent.handler = "handleGenerateResult"
    /\ lastAppEvent.response.kind = "text"
    /\ lastAppEvent.response.json # Null
    /\ lastAppEvent.response.json[1].error = AiReportedError
    /\ lastAppEvent.response.json[1].seating.type = "array"
    /\ error = AiReportedError
    /\ finalArrangement = Null

\* the entry of seating at the 0-based cell <<r, c>>: Null when it is null
\* or absent
SeatingEntry(seating, rc) ==
    IF rc[1] + 1 \in DOMAIN seating /\ rc[2] + 1 \in DOMAIN seating[rc[1] + 1][1]
    THEN seating[rc[1] + 1][1][rc[2] + 1]
    ELSE Null

\* the fields of a desk other than students
SameDesk(a, b) ==
    /\ a.id = b.id /\ a.type = b.type /\ a.x = b.x /\ a.y = b.y
    /\ a.width = b.width /\ a.height = b.height /\ a.rotation = b.rotation
    /\ a.userBlockedSeats = b.userBlockedSeats

\* a result with a seating was applied by the last step
SeatingApplied ==
    /\ lastAppEvent.handler = "handleGenerateResult"
    /\ lastAppEvent.result.error = Null
    /\ lastAppEvent.result.seating # Null
    /\ ~RowForEachThrows(lastAppEvent.result.seating[1])

\* C14: when a successful result is applied, every desk of the layout of
\* the call keeps all its fields but students, and its students are the
\* entries of its cell of the seating, index by index, with every entry that
\* is not a string replaced by null; a desk whose cell is null or absent has
\* no students.
C14_SeatsProjected ==
    SeatingApplied =>
        LET call == lastAppEvent.call
            seating == lastAppEvent.result.seating[1]
        IN  /\ finalArrangement # Null
            /\ Len(finalArrangement[1]) = Len(call.layoutObjects)
            /\ \A i \in DOMAIN call.layoutObjects :
                  LET d == finalArrangement[1][i]
                      entry == SeatingEntry(seating, CHOOSE rc \in CellsOf(call, d.id) : TRUE)
                  IN  /\ SameDesk(d, call.layoutObjects[i])
                      /\ Len(d.students) = Len(entry)
                      /\ \A k \in DOMAIN entry :
                            d.students[k] = IF entry[k] = NumberSeat THEN Null
                                            ELSE entry[k]

\* the answer [null, 7, "a"] for the first desk was applied: the name stays
\* at the third seat
C14_Witness ==
    /\ SeatingApplied
    /\ finalArrangement # Null
    /\ Len(finalArrangement[1]) > 1
    /\ Len(finalArrangement[1][1].students) = 3
    /\ finalArrangement[1][1].students[1] = Null
    /\ finalArrangement[1][1].students[2] = Null
    /\ finalArrangement[1][1].students[3] = <<"a">>
    /\ finalArrangement[1][2].students = <<>>

\* no two saved classrooms have the same name
UniqueNames(list) == \A i, j \in DOMAIN list : list[i].name = list[j].name => i = j

\* the records of a list whose name is not the given one
OtherRecords(list, name) == {list[i] : i \in {k \in DOMAIN list : list[k].name # name}}

\* the step is a click on the named storage button
StorageStep(handler) ==
    /\ storageOps' = storageOps + 1
    /\ lastStorageEvent'.handler = handler

\* C15: starting from a list with unique names, a save or a delete leaves
\* the names unique; a save under an existing name replaces that record with
\* the layout and arrangement given and keeps the length, a save under a new
\* name adds exactly one record (a save that is confirmed and written).
C15_UniqueNames ==
    [][(UniqueNames(savedLayouts)
        /\ (StorageStep("handleSaveClick") \/ StorageStep("handleDeleteClick")))
       => /\ UniqueNames(savedLayouts')
          /\ (/\ StorageStep("handleSaveClick")
              /\ lastStorageEvent'.name # <<>>
              /\ lastStorageEvent'.writeSucceeds
              /\ (lastStorageEvent'.confirmed
                  \/ FindNameFrom(savedLayouts, lastStorageEvent'.name, 1) = 0))
             => LET name == lastStorageEvent'.name
                    existed == FindNameFrom(savedLayouts, name, 1) > 0
                IN  /\ Len(savedLayouts') = Len(savedLayouts) + (IF existed THEN 0 ELSE 1)
                    /\ savedLayouts'[FindNameFrom(savedLayouts', name, 1)]
                         = SavedClassroom(name, layoutObjects, finalArrangement)
                    /\ OtherRecords(savedLayouts', name) = OtherRecords(savedLayouts, name)
       ]_vars

\* the classroom B of a list of two was saved again, with the arrangement
\* loaded from it
C15_Witness ==
    /\ lastStorageEvent.handler = "handleSaveClick"
    /\ lastStorageEvent.name = <<"B">>
    /\ lastStorageEvent.writeSucceeds
    /\ Len(savedLayouts) = 2
    /\ savedLayouts[1].name = <<"A">>
    /\ savedLayouts[2] = SavedClassroom(<<"B">>, layoutObjects, finalArrangement)
    /\ finalArrangement # Null
    /\ storageOps = 3

\* C16: after any sequence of save, delete and import operations, with
\* writes that may fail, the in-memory list equals the persisted list.
C16_MemoryEqualsStorage == savedLayouts = PersistedList

\* the check of an imported document, as the claim states it
PassesImportCheck(document) ==
    /\ document.parses
    /\ document.isArray
    /\ \A i \in DOMAIN document.elements :
          i = 1 => /\ ~document.elements[i].isNull
                   /\ document.elements[i].name \notin {Null, Some(<<>>)}
                   /\ document.elements[i].layout # Null

\* C17: an imported document that is not valid JSON, is not an array, or is
\* a non-empty array whose first element lacks a name or a layout leaves the
\* in-memory list and the persisted list unchanged and sets an error; a
\* document that passes the check replaces both (when the write succeeds).
C17_ImportValidated ==
    [][StorageStep("handleImportFileChange")
       => LET document == lastStorageEvent'.document
          IN  IF PassesImportCheck(document)
              THEN lastStorageEvent'.writeSucceeds
                   => /\ Len(savedLayouts') = Len(document.elements)
                      /\ \A i \in DOMAIN savedLayouts' :
                            /\ Some(savedLayouts'[i].name) = document.elements[i].name
                            /\ Some(savedLayouts'[i].layout) = document.elements[i].layout
                            /\ savedLayouts'[i].arrangement = document.elements[i].arrangement
                      /\ localStorage' = Some(savedLayouts')
              ELSE /\ savedLayouts' = savedLayouts
                   /\ localStorage' = localStorage
                   /\ error' # Null]_vars

\* a list of one classroom is in memory and in storage after an import whose
\* first element had no layout was rejected
C17_Witness ==
    /\ lastStorageEvent.handler = "handleImportFileChange"
    /\ ~PassesImportCheck(lastStorageEvent.document)
    /\ lastStorageEvent.document.isArray
    /\ Len(lastStorageEvent.document.elements) = 1
    /\ lastStorageEvent.document.elements[1].name = Some(<<"A">>)
    /\ error = ImportError
    /\ Len(savedLayouts) = 1
    /\ savedLayouts = PersistedList

\* the last recognition result came in a session with a target, which is
\* then the field that handleDictationResult wrote
DictationResultApplied ==
    /\ lastDictationEvent.handler = "onresult"
    /\ lastDictationEvent.target # Null

\* C18 as stated: a recognition result sets the target text to the base
\* text, the separator and the processed latest transcript, in this order.
C18_BasePlusTranscript ==
    DictationResultApplied =>
        LET target == lastDictationEvent.target[1]
        IN  lastDictationEvent.text
              = lastDictationEvent.base \o separator(target)
                  \o processedTranscript(target, lastDictationEvent.transcript)

\* C18: a recognition result sets the target text to the processed latest
\* transcript of the session, preceded by the base text and the separator
\* when the base text captured at the start of listening is not empty; it
\* depends on no earlier result of the session.
C18_LatestTranscriptOnly ==
    DictationResultApplied =>
        LET target == lastDictationEvent.target[1]
            processed == processedTranscript(target, lastDictationEvent.transcript)
        IN  lastDictationEvent.text
              = IF lastDictationEvent.base = <<>> THEN processed
                ELSE lastDictationEvent.base \o separator(target) \o processed

\* the third result of a session that dictates names after the roster
\* "a", "b": the roster is the base text and the names of the last transcript
C18_Witness ==
    /\ DictationResultApplied
    /\ dictationTarget = Some("students")
    /\ dictationEvents = 3
    /\ baseTextOnListenStart = <<"a", "\n", "b">>
    /\ lastDictationEvent.base = baseTextOnListenStart
    /\ lastDictationEvent.transcript = <<"a", " ", "b", ",", " ", "c">>
    /\ students = <<"a", "\n", "b", "\n", "A", " ", "B", "\n", "C">>
    /\ lastDictationEvent.text = students

\* C19: in an editing session every desk's userBlockedSeats holds only seat
\* indices of its type code, holds none of them twice, and holds no index
\* of a structurally blocked seat.
C19_BlockedSeatsValid ==
    \A i \in DOMAIN editorLayoutObjects :
        LET desk == editorLayoutObjects[i]
            blocked == desk.userBlockedSeats
        IN  \A k \in DOMAIN blocked :
                /\ blocked[k] \in 0..(Len(desk.type) - 1)
                /\ ~IsPermanentlyBlocked(desk.type, blocked[k])
                /\ \A m \in DOMAIN blocked : blocked[m] = blocked[k] => m = k

\* a desk "101" dropped from the palette whose third and first seat were
\* clicked, in this order
C19_Witness ==
    /\ lastEvent.handler = "handleSeatClick"
    /\ \E i \in DOMAIN editorLayoutObjects :
          /\ editorLayoutObjects[i].type = T101
          /\ editorLayoutObjects[i].userBlockedSeats = <<2, 0>>

\* the number the numbered matrix shows for a desk, of a layout of n desks:
\* the label of the cell that positionMap gives to the desk, 0 when no cell
\* is the desk's
ShownNumberOf(conv, id, n) ==
    LET labels == NumberedLabels(conv)
        hits == {m \in 1..n :
                   \E r \in DOMAIN labels : \E c \in DOMAIN labels[r] :
                       /\ PosKey(r - 1, c - 1) \in DOMAIN conv.positionMap
                       /\ conv.positionMap[PosKey(r - 1, c - 1)] = id
                       /\ labels[r][c] = Label(m)}
    IN  IF hits = {} THEN 0 ELSE CHOOSE m \in hits : TRUE

ShownNumber(conv, id) == ShownNumberOf(conv, id, Len(objects))

\* C20: of two numbered desks of a layout without overlaps whose y values
\* differ by more than DESK_HEIGHT_UNITS / 2 the one with the larger y has
\* the smaller number, and of two whose y values differ by at most that the
\* one with the smaller x has the smaller number.
C20_FrontToBackLeftToRight ==
    (convPc # "input" /\ NoOverlap(objects)) =>
        \A i, j \in DOMAIN objects :
            LET a == objects[i]
                b == objects[j]
                numberA == ShownNumber(converted, a.id)
                numberB == ShownNumber(converted, b.id)
            IN  (numberA > 0 /\ numberB > 0) =>
                    /\ (2 * Abs(a.y - b.y) > DESK_HEIGHT_UNITS /\ a.y > b.y)
                          => numberA < numberB
                    /\ (2 * Abs(a.y - b.y) <= DESK_HEIGHT_UNITS /\ a.x < b.x)
                          => numberA < numberB

\* a step of handleClearChart
ClearStep == finalArrangement # Null /\ finalArrangement' = Null /\ lastChange' = "discard"

\* the state a discard leaves
DiscardEffect ==
    LET roster == Split(students', "\n")
        seated == finalArrangement[1]
        names == UNION {{seated[i].students[k] : k \in DOMAIN seated[i].students} :
                           i \in DOMAIN seated} \ {<<>>}
    IN  /\ seatingChart' = Null
        /\ conditions' = <<>>
        /\ error' = Null
        /\ layoutObjects' = layoutObjects
        /\ IF names = {} THEN students' = <<>>
           ELSE /\ {roster[n] : n \in DOMAIN roster} = names
                /\ \A n \in DOMAIN roster :
                      n > 1 => CompareCodeUnits(roster[n - 1], roster[n]) < 0

\* C21: a discard sets the arrangement and the seating chart to null, empties
\* the conditions and the error, makes the roster the sorted list of the
\* names seated, each once, and leaves the layout alone; the next click on
\* the generate button after it, with no classroom loaded in between, runs in
\* generation mode.
C21_DiscardThenGenerate ==
    [][/\ ClearStep => DiscardEffect
       /\ (lastChange = "discard" /\ lastAppEvent'.handler = "handleGenerateClick")
             => ~lastAppEvent'.isModification]_vars

\* the sentences about blocked seats among the lines of the conditions of a
\* request
SynthesizedLines(call) ==
    SelectSeq(Split(call.conditions, "\n"),
              LAMBDA line : Len(line) > 0 /\ line[1] = "V lavici c. ")

\* the sentence the claim expects for seat seatIndex of desk
ExpectedSentence(call, desk, seatIndex) ==
    BlockedSeatSentence(ShownNumberOf(call, desk.id, Len(call.layoutObjects)), seatIndex)

\* C22: the conditions of a request hold, for each user-blocked seat of the
\* layout, exactly one sentence with the number the numbered matrix of the
\* request shows for the desk and the seat's index plus one, and no other
\* sentence about a blocked seat.
C22_BlockedSeatSentences ==
    \A n \in DOMAIN inFlight :
        LET call == inFlight[n]
            lines == SynthesizedLines(call)
            desks == call.layoutObjects
        IN  /\ \A k \in DOMAIN desks : \A m \in DOMAIN desks[k].userBlockedSeats :
                  Cardinality({j \in DOMAIN lines :
                                 lines[j] = ExpectedSentence(call, desks[k],
                                                             desks[k].userBlockedSeats[m])})
                    = 1
            /\ \A j \in DOMAIN lines :
                  \E k \in DOMAIN desks : \E m \in DOMAIN desks[k].userBlockedSeats :
                      lines[j] = ExpectedSentence(call, desks[k],
                                                  desks[k].userBlockedSeats[m])

\* a request for a layout of many desks whose first desk, which is not desk
\* number 1, has its first seat blocked
C22_Witness ==
    \E n \in DOMAIN inFlight :
        LET call == inFlight[n]
        IN  /\ Len(call.layoutObjects) > 2
            /\ call.layoutObjects[1].userBlockedSeats = <<0>>
            /\ ShownNumberOf(call, call.layoutObjects[1].id, Len(call.layoutObjects)) > 1
            /\ Len(SynthesizedLines(call)) = 1

\* C23: when every recognition session that was started has ended, by a
\* stop, by the recogniser or after an error, the dictation target is null.
C23_TargetClearedAfterSession ==
    Unended = {} => dictationTarget = Null

\* C24: no two desks of the editor's layout have overlapping rectangles.
C24_NoOverlapInEditor == NoOverlap(editorLayoutObjects)

\* C25: in each line of the matrix of a layout without overlaps, a desk with
\* a smaller x than another desk of the line stands in a column to its left.
C25_LineOrderedByX ==
    (convPc # "input" /\ NoOverlap(objects)) =>
        \A i, j \in DOMAIN objects :
            LET a == objects[i]
                b == objects[j]
            IN  (/\ CellsOf(converted, a.id) # {}
                 /\ CellsOf(converted, b.id) # {}
                 /\ LineOf(converted, a.id) = LineOf(converted, b.id)
                 /\ a.x < b.x)
                => ColOf(converted, a.id) < ColOf(converted, b.id)

\* a desk of an arrangement without its students
DeskOf(seated) ==
    [id |-> seated.id, type |-> seated.type, x |-> seated.x, y |-> seated.y,
     width |-> seated.width, height |-> seated.height, rotation |-> seated.rotation,
     userBlockedSeats |-> seated.userBlockedSeats]

\* C26: while an arrangement exists, its desks are the desks of the layout.
C26_ArrangementOnLayout ==
    finalArrangement # Null =>
        [i \in DOMAIN finalArrangement[1] |-> DeskOf(finalArrangement[1][i])] = layoutObjects

\* C28: at most one recognition session has been started and has not ended,
\* and a session that is running is the one recognitionRef holds, which is
\* the one stopListening stops.
C28_OneSession ==
    /\ Cardinality(Unended) <= 1
    /\ \A k \in DOMAIN sessions : sessions[k] = "active" => recognitionRef = k

\* C27: user actions taken while a request is outstanding are not overridden
\* by the late response: when the arrangement was discarded during the
\* request it is still null after the response is handled, and when a saved
\* classroom was loaded during the request the arrangement after the
\* response is the loaded one.  The click on the generate button is the
\* "generate" change, so a later change happened during the request.
C27_LateResponseKeepsUserAction ==
    [][ResultStep =>
          /\ lastChange = "discard" => finalArrangement' = Null
          /\ lastChange = "load" => finalArrangement' = finalArrangement]_vars

\* C29: in every arrangement produced by applying an AI result, no desk holds
\* a student name at a seat index that is not occupiable: structurally
\* blocked, user-blocked, or at or beyond the length of the desk's type code.
C29_NamesOnOccupiableSeats ==
    finalArrangement # Null =>
        LET seated == finalArrangement[1]
        IN  \A i \in DOMAIN seated : \A k \in DOMAIN seated[i].students :
                seated[i].students[k] # Null => <<i, k - 1>> \in OccupiablePairs(seated)

\* the request failed: the call was rejected, the text is not JSON, the
\* service reports an error, or the seating is not an array of arrays
FailedResponse(response) ==
    \/ response.kind = "rejected"
    \/ response.json = Null
    \/ /\ response.kind = "text"
       /\ response.json # Null
       /\ \/ Truthy(response.json[1].error)
          \/ response.json[1].seating.type # "array"
          \/ RowForEachThrows(response.json[1].seating.rows)

\* C30: when a modification request fails (an error reported by the AI, a
\* malformed response or a communication error) the existing arrangement and
\* the desk layout are left as they were and an error message is set.
C30_FailedModificationKeepsArrangement ==
    [][(/\ ResultStep
        /\ lastAppEvent'.call.isModification
        /\ FailedResponse(lastAppEvent'.response))
          => /\ finalArrangement' = finalArrangement
             /\ layoutObjects' = layoutObjects
             /\ error' # Null]_vars

====
